---- MODULE Spec2Model ----
(***************************************************************************)
(* A model of the report pipeline of ibkr-toolkit (package ibkr_tax):      *)
(*   - api/flex_query.py    FlexQueryClient: request_report, get_report,   *)
(*                          fetch_data (the request / poll protocol)       *)
(*   - parsers/data_parser.py  safe_float and the parse_* functions        *)
(*   - cli.py               process_accounts and the fetch / combine /     *)
(*                          parse steps of main                            *)
(*   - services/exchange_rate.py  ExchangeRateService.get_rate             *)
(* and of its stop-loss monitor (package ibkr_toolkit):                    *)
(*   - services/stop_loss.py   StopLossManager and StopLossChecker         *)
(* Python strings are sequences of one-character strings, so that `in`,    *)
(* split and float() are computed and not assumed.  Python values whose    *)
(* type the code inspects are tagged records [kind, val].                  *)
(***************************************************************************)
EXTENDS Integers, Sequences, FiniteSets, TLC

(***************************************************************************)
(* Bounds of the model.                                                    *)
(***************************************************************************)
\* largest max_retries argument given to a direct get_report call
MaxRetriesArg == 3
\* number of years from BaseYear up to the current year
MaxYears == 3
\* first year the model lets a run start from
BaseYear == 2023

(***************************************************************************)
(* constants.py                                                            *)
(***************************************************************************)
MAX_RETRIES == 3
RETRY_DELAY == 2
RETRY_BACKOFF == 2
\* time.sleep(2) of fetch_data
WARMUP_DELAY == 2

(***************************************************************************)
(* Strings.                                                                *)
(***************************************************************************)
\* Python's `sub in s` for strings
StrContains(s, sub) ==
    \E i \in 0..(Len(s) - Len(sub)) : SubSeq(s, i + 1, i + Len(sub)) = sub

NOT_READY_TEXT == <<"S", "t", "a", "t", "e", "m", "e", "n", "t", " ", "i", "s", " ", "n", "o", "t", " ", "y", "e", "t", " ", "r", "e", "a", "d", "y">>
MSG_NOT_READY_LONG == <<"S", "t", "a", "t", "e", "m", "e", "n", "t", " ", "i", "s", " ", "n", "o", "t", " ", "y", "e", "t", " ", "r", "e", "a", "d", "y", ".", " ", "R", "e", "t", "r", "y">>
MSG_TOKEN_EXPIRED == <<"T", "o", "k", "e", "n", " ", "h", "a", "s", " ", "e", "x", "p", "i", "r", "e", "d">>
\* "statement is not yet ready": differs from the matched text in case only
MSG_LOWER_CASE == <<"s", "t", "a", "t", "e", "m", "e", "n", "t", " ", "i", "s", " ", "n", "o", "t", " ", "y", "e", "t", " ", "r", "e", "a", "d", "y">>

RECURSIVE Pow(_, _)
\* Python's b ** e for integers e >= 0
Pow(b, e) == IF e = 0 THEN 1 ELSE b * Pow(b, e - 1)

(***************************************************************************)
(* Python values.                                                          *)
(***************************************************************************)
PyNone == [kind |-> "None"]
PyStr(s) == [kind |-> "str", val |-> s]
PyDict(d) == [kind |-> "dict", val |-> d]
PyList(s) == [kind |-> "list", val |-> s]

Falsy(x) ==
    \/ x.kind = "None"
    \/ x.kind = "dict" /\ DOMAIN x.val = {}
    \/ x.kind = "list" /\ x.val = <<>>
    \/ x.kind = "str" /\ x.val = <<>>

\* d.get(k, default) on a dict whose values are tagged values
DictGet(d, k, default) == IF k \in DOMAIN d THEN d[k] ELSE default

\* item.get(k) on an element mapping (attribute values are strings)
AttrGet(item, k) == IF k \in DOMAIN item THEN PyStr(item[k]) ELSE PyNone

\* item.get(k, default) where default is a string
AttrStr(item, k, default) == IF k \in DOMAIN item THEN item[k] ELSE default

\* the outcome of a call: a value or a raised exception
Ok(v) == [kind |-> "ok", val |-> v]
Raise(e) == [kind |-> "raise", exc |-> e]

\* pd.DataFrame() and pd.DataFrame([]): a table is the sequence of its rows
EmptyFrame == <<>>

(***************************************************************************)
(* float(), str.split, str.upper                                           *)
(***************************************************************************)
Digits == <<"0", "1", "2", "3", "4", "5", "6", "7", "8", "9">>

IsDigit(c) == \E i \in 1..10 : Digits[i] = c

DigitVal(c) == (CHOOSE i \in 1..10 : Digits[i] = c) - 1

RECURSIVE DigitsVal(_)
DigitsVal(s) ==
    IF s = <<>> THEN 0 ELSE 10 * DigitsVal(SubSeq(s, 1, Len(s) - 1)) + DigitVal(s[Len(s)])

AllDigits(s) == s # <<>> /\ \A i \in 1..Len(s) : IsDigit(s[i])

\* float(s) for a string: an optional sign and decimal digits give the number,
\* anything else is a ValueError.  (The documents of the model carry whole
\* numbers: no ".", exponent, "inf" or "nan".)
FloatOfStr(s) ==
    IF AllDigits(s) THEN Ok(DigitsVal(s))
    ELSE IF s # <<>> /\ s[1] = "-" /\ AllDigits(Tail(s)) THEN Ok(0 - DigitsVal(Tail(s)))
    ELSE IF s # <<>> /\ s[1] = "+" /\ AllDigits(Tail(s)) THEN Ok(DigitsVal(Tail(s)))
    ELSE Raise("ValueError")

safe_float(value, default) ==
    IF value.kind = "None" \/ (value.kind = "str" /\ value.val = <<>>) THEN default
    ELSE IF value.kind # "str" THEN default
    ELSE IF FloatOfStr(value.val).kind = "ok" THEN FloatOfStr(value.val).val
    ELSE default

\* Python's abs()
Abs(x) == IF x < 0 THEN 0 - x ELSE x

RECURSIVE IndexOf(_, _, _)
\* the first position >= i of character c in s, or 0
IndexOf(s, c, i) ==
    IF i > Len(s) THEN 0 ELSE IF s[i] = c THEN i ELSE IndexOf(s, c, i + 1)

RECURSIVE Split(_, _)
\* s.split(c) for a one-character separator
Split(s, c) ==
    IF IndexOf(s, c, 1) = 0 THEN <<s>>
    ELSE <<SubSeq(s, 1, IndexOf(s, c, 1) - 1)>>
             \o Split(SubSeq(s, IndexOf(s, c, 1) + 1, Len(s)), c)

HasChar(s, c) == IndexOf(s, c, 1) # 0

Lower == <<"a", "b", "c", "d", "e", "f", "g", "h", "i", "j", "k", "l", "m", "n", "o", "p", "q", "r", "s", "t", "u", "v", "w", "x", "y", "z">>
Upper == <<"A", "B", "C", "D", "E", "F", "G", "H", "I", "J", "K", "L", "M", "N", "O", "P", "Q", "R", "S", "T", "U", "V", "W", "X", "Y", "Z">>

UpperChar(c) ==
    IF \E i \in 1..26 : Lower[i] = c THEN Upper[CHOOSE i \in 1..26 : Lower[i] = c] ELSE c

\* s.upper()
StrUpper(s) == [i \in 1..Len(s) |-> UpperChar(s[i])]

(***************************************************************************)
(* parsers/data_parser.py: the parse functions.  flex_data is the mapping  *)
(* of one account statement: section name -> tagged value.                 *)
(***************************************************************************)
\* TradesLots without the isinstance(lots, dict) normalisation
MutTradesLotsNoWrap(trades_section) ==
    DictGet(trades_section.val, "Lot", PyList(<<>>))

\* data_parser.py 50-54: the "Lot" sub-collection as a list
TradesLots(trades_section) ==
    LET lots == DictGet(trades_section.val, "Lot", PyList(<<>>))
    IN  IF lots.kind = "dict" THEN PyList(<<lots.val>>) ELSE lots

\* TradeQuantity without abs()
MutTradeQuantitySigned(lot) == safe_float(AttrGet(lot, "@quantity"), 0)

\* data_parser.py 72: "Quantity": abs(safe_float(lot.get("@quantity")))
TradeQuantity(lot) == Abs(safe_float(AttrGet(lot, "@quantity"), 0))

\* data_parser.py 62-83: the row of one closed lot
TradeRow(lot) ==
    ("Date" :> (IF ~Falsy(AttrGet(lot, "@tradeDate")) \/ ~Falsy(AttrGet(lot, "@dateTime"))
                THEN Split(AttrStr(lot, "@tradeDate", AttrStr(lot, "@dateTime", <<>>)), ";")[1]
                ELSE <<>>))
    @@ ("Time" :> (IF HasChar(AttrStr(lot, "@dateTime", <<>>), ";")
                   THEN Split(AttrStr(lot, "@dateTime", <<>>), ";")[2]
                   ELSE <<>>))
    @@ ("Symbol" :> AttrStr(lot, "@symbol", <<>>))
    @@ ("Description" :> AttrStr(lot, "@description", <<>>))
    @@ ("Quantity" :> TradeQuantity(lot))
    @@ ("Price" :> safe_float(AttrGet(lot, "@tradePrice"), 0))
    @@ ("Amount" :> safe_float(AttrGet(lot, "@proceeds"), 0))
    @@ ("Cost" :> safe_float(AttrGet(lot, "@cost"), 0))
    @@ ("Commission" :> 0)
    @@ ("Realized P&L" :> safe_float(AttrGet(lot, "@fifoPnlRealized"), 0))
    @@ ("Buy_Sell" :> AttrStr(lot, "@buySell", <<>>))
    @@ ("Currency" :> AttrStr(lot, "@currency", <<>>))
    @@ ("Asset_Category" :> AttrStr(lot, "@assetCategory", <<>>))
    @@ ("Open_DateTime" :> AttrStr(lot, "@openDateTime", <<>>))

\* `for x in coll: rows.append(row(x))`, with the rows of a list of element
\* mappings precomputed in `rows`.  Iterating a mapping yields its keys,
\* which are strings and have no .get (AttributeError); None is not iterable.
ForEach(coll, rows) ==
    IF coll.kind = "list" THEN Ok(rows)
    ELSE IF coll.kind = "None" THEN Raise("TypeError")
    ELSE Raise("AttributeError")

parse_trades(flex_data) ==
    LET trades_section == DictGet(flex_data, "Trades", PyNone)
    IN  IF Falsy(trades_section) THEN Ok(EmptyFrame)
        ELSE IF trades_section.kind # "dict" THEN Raise("AttributeError")
        ELSE LET lots == TradesLots(trades_section)
             IN  IF Falsy(lots) THEN Ok(EmptyFrame)
                 ELSE ForEach(lots, IF lots.kind = "list"
                                    THEN [i \in 1..Len(lots.val) |-> TradeRow(lots.val[i])]
                                    ELSE <<>>)

\* data_parser.py 106-109, 159-161, 223-225: the "CashTransaction"
\* sub-collection as a list (each function has its own copy of these lines)
DividendTxns(cash_section) ==
    LET cash_txns == DictGet(cash_section.val, "CashTransaction", PyList(<<>>))
    IN  IF cash_txns.kind = "dict" THEN PyList(<<cash_txns.val>>) ELSE cash_txns

TaxFallbackTxns(cash_section) ==
    LET cash_txns == DictGet(cash_section.val, "CashTransaction", PyList(<<>>))
    IN  IF cash_txns.kind = "dict" THEN PyList(<<cash_txns.val>>) ELSE cash_txns

DepositTxns(cash_section) ==
    LET cash_txns == DictGet(cash_section.val, "CashTransaction", PyList(<<>>))
    IN  IF cash_txns.kind = "dict" THEN PyList(<<cash_txns.val>>) ELSE cash_txns

\* txn.get("@dateTime", txn.get("@reportDate", ""))
TxnDateTime(txn) == AttrStr(txn, "@dateTime", AttrStr(txn, "@reportDate", <<>>))

\* date_time.split(";")[0] if ";" in date_time else date_time
DatePart(date_time) ==
    IF HasChar(date_time, ";") THEN Split(date_time, ";")[1] ELSE date_time

\* the rows of the elements of a list that satisfy a predicate, in order
SelectRows(items, Keep(_), Row(_)) ==
    LET kept == SelectSeq(items, Keep) IN [i \in 1..Len(kept) |-> Row(kept[i])]

DIVIDEND == <<"D", "i", "v", "i", "d", "e", "n", "d">>
WITHHOLDING == <<"W", "i", "t", "h", "h", "o", "l", "d", "i", "n", "g">>
TAX == <<"T", "A", "X">>
DEPOSITS_WITHDRAWALS == <<"D", "e", "p", "o", "s", "i", "t", "s", "/", "W", "i", "t", "h", "d", "r", "a", "w", "a", "l", "s">>

\* data_parser.py 121
IsDividend(txn) ==
    \/ StrContains(AttrStr(txn, "@type", <<>>), DIVIDEND)
    \/ StrContains(AttrStr(txn, "@description", <<>>), DIVIDEND)

\* data_parser.py 123-132
DividendRow(txn) ==
    ("Date" :> DatePart(TxnDateTime(txn)))
    @@ ("Symbol" :> AttrStr(txn, "@symbol", <<>>))
    @@ ("Description" :> AttrStr(txn, "@description", <<>>))
    @@ ("Amount" :> safe_float(AttrGet(txn, "@amount"), 0))
    @@ ("Currency" :> AttrStr(txn, "@currency", <<>>))
    @@ ("Type" :> AttrStr(txn, "@type", <<>>))

parse_dividends(flex_data) ==
    LET cash_section == DictGet(flex_data, "CashTransactions", PyNone)
    IN  IF Falsy(cash_section) THEN Ok(EmptyFrame)
        ELSE IF cash_section.kind # "dict" THEN Raise("AttributeError")
        ELSE LET cash_txns == DividendTxns(cash_section)
             IN  IF Falsy(cash_txns) THEN Ok(EmptyFrame)
                 ELSE ForEach(cash_txns, IF cash_txns.kind = "list"
                                         THEN SelectRows(cash_txns.val, IsDividend, DividendRow)
                                         ELSE <<>>)

\* data_parser.py 166
IsWithholding(txn) ==
    \/ StrContains(AttrStr(txn, "@type", <<>>), WITHHOLDING)
    \/ StrContains(StrUpper(AttrStr(txn, "@type", <<>>)), TAX)

\* data_parser.py 173 and 197: "Amount": abs(safe_float(x.get("@amount")))
TaxAmount(x) == Abs(safe_float(AttrGet(x, "@amount"), 0))

\* data_parser.py 167-177: a withholding row found among the cash transactions
TaxFallbackRow(txn) ==
    ("Date" :> DatePart(TxnDateTime(txn)))
    @@ ("Symbol" :> AttrStr(txn, "@symbol", <<>>))
    @@ ("Description" :> AttrStr(txn, "@description", <<>>))
    @@ ("Amount" :> TaxAmount(txn))
    @@ ("Currency" :> AttrStr(txn, "@currency", <<>>))
    @@ ("Type" :> AttrStr(txn, "@type", <<>>))

\* data_parser.py 192-201: a row of the dedicated section
TaxRow(tax) ==
    ("Date" :> AttrStr(tax, "@date", <<>>))
    @@ ("Symbol" :> AttrStr(tax, "@symbol", <<>>))
    @@ ("Description" :> AttrStr(tax, "@description", <<>>))
    @@ ("Amount" :> TaxAmount(tax))
    @@ ("Currency" :> AttrStr(tax, "@currency", <<>>))
    @@ ("Type" :> AttrStr(tax, "@code", <<>>))

\* data_parser.py 187-188
TaxList(taxes) == IF taxes.kind = "dict" THEN PyList(<<taxes.val>>) ELSE taxes

\* data_parser.py 154-185: the scan of the cash transactions
TaxFallback(flex_data) ==
    LET cash_section == DictGet(flex_data, "CashTransactions", PyNone)
    IN  IF Falsy(cash_section) THEN Ok(EmptyFrame)
        ELSE IF cash_section.kind # "dict" THEN Raise("AttributeError")
        ELSE LET cash_txns == TaxFallbackTxns(cash_section)
             IN  ForEach(cash_txns, IF cash_txns.kind = "list"
                                    THEN SelectRows(cash_txns.val, IsWithholding, TaxFallbackRow)
                                    ELSE <<>>)

\* data_parser.py 150: flex_data.get("WithholdingTax", {}).get("Tax", []);
\* the default {} stands in for an absent key only, a null section is None
WithholdingTaxes(flex_data) ==
    LET section == DictGet(flex_data, "WithholdingTax", PyDict(<<>>))
    IN  IF section.kind # "dict" THEN Raise("AttributeError")
        ELSE Ok(DictGet(section.val, "Tax", PyList(<<>>)))

parse_withholding_tax(flex_data) ==
    LET got == WithholdingTaxes(flex_data)
    IN  IF got.kind = "raise" THEN got
        ELSE IF Falsy(got.val) THEN TaxFallback(flex_data)
        ELSE LET taxes == TaxList(got.val)
             IN  ForEach(taxes, IF taxes.kind = "list"
                                THEN [i \in 1..Len(taxes.val) |-> TaxRow(taxes.val[i])]
                                ELSE <<>>)

\* data_parser.py 234
IsDepositWithdrawal(txn) == AttrStr(txn, "@type", <<>>) = DEPOSITS_WITHDRAWALS

\* data_parser.py 244: date_part, time_part = date_time.split(";") needs
\* exactly two parts
DepositUnpackFails(txn) ==
    HasChar(TxnDateTime(txn), ";") /\ Len(Split(TxnDateTime(txn), ";")) # 2

\* data_parser.py 246-249
TimeFormatted(time_part) ==
    IF Len(time_part) = 6
    THEN SubSeq(time_part, 1, 2) \o <<":">> \o SubSeq(time_part, 3, 4) \o <<":">>
             \o SubSeq(time_part, 5, 6)
    ELSE time_part

\* TransactionType counting a zero amount as a deposit
MutTransactionTypeZeroDeposit(amount_base) ==
    IF amount_base >= 0 THEN "Deposit" ELSE "Withdrawal"

\* data_parser.py 262: "Deposit" if amount_base > 0 else "Withdrawal"
TransactionType(amount_base) == IF amount_base > 0 THEN "Deposit" ELSE "Withdrawal"

\* data_parser.py 235-265
DepositRow(txn) ==
    LET date_time == TxnDateTime(txn)
        amount == safe_float(AttrGet(txn, "@amount"), 0)
        fx_rate == safe_float(AttrGet(txn, "@fxRateToBase"), 1)
        amount_base == amount * fx_rate
    IN  ("Date" :> (IF HasChar(date_time, ";") THEN Split(date_time, ";")[1] ELSE date_time))
        @@ ("Time" :> (IF HasChar(date_time, ";")
                       THEN TimeFormatted(Split(date_time, ";")[2]) ELSE <<>>))
        @@ ("Description" :> AttrStr(txn, "@description", <<>>))
        @@ ("Amount" :> amount)
        @@ ("Currency" :> AttrStr(txn, "@currency", <<>>))
        @@ ("FX_Rate_To_Base" :> fx_rate)
        @@ ("Amount_Base_Currency" :> amount_base)
        @@ ("Transaction_Type" :> TransactionType(amount_base))

parse_deposits_withdrawals(flex_data) ==
    LET cash_section == DictGet(flex_data, "CashTransactions", PyNone)
    IN  IF Falsy(cash_section) THEN Ok(EmptyFrame)
        ELSE IF cash_section.kind # "dict" THEN Raise("AttributeError")
        ELSE LET cash_txns == DepositTxns(cash_section)
             IN  IF Falsy(cash_txns) THEN Ok(EmptyFrame)
                 ELSE IF cash_txns.kind = "list"
                         /\ \E i \in 1..Len(cash_txns.val) :
                                /\ IsDepositWithdrawal(cash_txns.val[i])
                                /\ DepositUnpackFails(cash_txns.val[i])
                 THEN Raise("ValueError")
                 ELSE ForEach(cash_txns,
                              IF cash_txns.kind = "list"
                              THEN SelectRows(cash_txns.val, IsDepositWithdrawal, DepositRow)
                              ELSE <<>>)

\* data_parser.py 451-455
OpenPositionList(positions_section) ==
    LET positions == DictGet(positions_section.val, "OpenPosition", PyList(<<>>))
    IN  IF positions.kind = "dict" THEN PyList(<<positions.val>>) ELSE positions

\* data_parser.py 463-475
PositionRow(pos) ==
    ("Symbol" :> AttrStr(pos, "@symbol", <<>>))
    @@ ("Description" :> AttrStr(pos, "@description", <<>>))
    @@ ("Quantity" :> safe_float(AttrGet(pos, "@quantity"), 0))
    @@ ("Mark_Price" :> safe_float(AttrGet(pos, "@markPrice"), 0))
    @@ ("Position_Value" :> safe_float(AttrGet(pos, "@positionValue"), 0))
    @@ ("Cost_Basis" :> safe_float(AttrGet(pos, "@costBasisMoney"), 0))
    @@ ("Unrealized_P&L" :> safe_float(AttrGet(pos, "@fxPnl"), 0))
    @@ ("Currency" :> AttrStr(pos, "@currency", <<>>))
    @@ ("Asset_Category" :> AttrStr(pos, "@assetCategory", <<>>))

parse_open_positions(flex_data) ==
    LET positions_section == DictGet(flex_data, "OpenPositions", PyNone)
    IN  IF Falsy(positions_section) THEN Ok(EmptyFrame)
        ELSE IF positions_section.kind # "dict" THEN Raise("AttributeError")
        ELSE LET positions == OpenPositionList(positions_section)
             IN  IF Falsy(positions) THEN Ok(EmptyFrame)
                 ELSE ForEach(positions,
                              IF positions.kind = "list"
                              THEN [i \in 1..Len(positions.val) |-> PositionRow(positions.val[i])]
                              ELSE <<>>)

BASE_SUMMARY == <<"B", "A", "S", "E", "_", "S", "U", "M", "M", "A", "R", "Y">>

\* data_parser.py 497-501
CashReportList(cash_report_section) ==
    LET cash_reports == DictGet(cash_report_section.val, "CashReportCurrency", PyList(<<>>))
    IN  IF cash_reports.kind = "dict" THEN PyList(<<cash_reports.val>>) ELSE cash_reports

\* data_parser.py 508-515: the BASE_SUMMARY entry, else the first one
CashData(reports) ==
    IF \E i \in 1..Len(reports) : AttrGet(reports[i], "@currency") = PyStr(BASE_SUMMARY)
    THEN reports[CHOOSE i \in 1..Len(reports) :
                     /\ AttrGet(reports[i], "@currency") = PyStr(BASE_SUMMARY)
                     /\ \A j \in 1..(i - 1) :
                            AttrGet(reports[j], "@currency") # PyStr(BASE_SUMMARY)]
    ELSE reports[1]

\* data_parser.py 520-531
CashReportResult(cash_data) ==
    ("Starting_Cash" :> safe_float(AttrGet(cash_data, "@startingCash"), 0))
    @@ ("Ending_Cash" :> safe_float(AttrGet(cash_data, "@endingCash"), 0))
    @@ ("Net_Trades_Sales" :> safe_float(AttrGet(cash_data, "@netTradesSales"), 0))
    @@ ("Net_Trades_Purchases" :> safe_float(AttrGet(cash_data, "@netTradesPurchases"), 0))
    @@ ("Deposit_Withdrawals" :> safe_float(AttrGet(cash_data, "@depositWithdrawals"), 0))
    @@ ("Deposits" :> safe_float(AttrGet(cash_data, "@deposits"), 0))
    @@ ("Withdrawals" :> safe_float(AttrGet(cash_data, "@withdrawals"), 0))
    @@ ("Dividends" :> safe_float(AttrGet(cash_data, "@dividends"), 0))
    @@ ("Commissions" :> safe_float(AttrGet(cash_data, "@commissions"), 0))
    @@ ("Currency" :> AttrStr(cash_data, "@currency", <<>>))

\* the empty mapping {} that parse_cash_report returns for no data
EmptyMapping == <<>>

parse_cash_report(flex_data) ==
    LET cash_report_section == DictGet(flex_data, "CashReport", PyNone)
    IN  IF Falsy(cash_report_section) THEN Ok(EmptyMapping)
        ELSE IF cash_report_section.kind # "dict" THEN Raise("AttributeError")
        ELSE LET cash_reports == CashReportList(cash_report_section)
             IN  IF Falsy(cash_reports) THEN Ok(EmptyMapping)
                 ELSE IF cash_reports.kind # "list" THEN Raise("AttributeError")
                 ELSE IF DOMAIN CashData(cash_reports.val) = {} THEN Ok(EmptyMapping)
                 ELSE Ok(CashReportResult(CashData(cash_reports.val)))

(***************************************************************************)
(* The statement documents the parsers are checked on: what xmltodict      *)
(* makes of a FlexStatement element.  An element without attributes or     *)
(* children is None, a single child element is a bare mapping, repeated    *)
(* child elements are a list of mappings; attribute values are strings.    *)
(***************************************************************************)
\* longest list of repeated elements in a section
MaxItems == 2

\* marks an attribute or a section the document does not have
ABSENT == <<"<absent>">>
NoSection == [kind |-> "absent"]

\* the mapping f without its ABSENT attributes
Present(f) == [k \in {x \in DOMAIN f : f[x] # ABSENT} |-> f[k]]

\* the document f without its missing sections
Doc(f) == [k \in {x \in DOMAIN f : f[x].kind # "absent"} |-> f[k]]

\* all lists of 1..n elements of S
ListsUpTo(n, S) == UNION {[1..k -> S] : k \in 1..n}

\* the forms a section with sub-collection key K can take: missing, null,
\* without the key, the key null / empty / a bare mapping / a list
SectionShapes(K, items, repeated) ==
    {NoSection, PyNone, PyDict(<<>>), PyDict("@count" :> PyStr(<<"0">>)),
     PyDict(K :> PyNone), PyDict(K :> PyList(<<>>))}
        \cup {PyDict(K :> PyDict(it)) : it \in items}
        \cup {PyDict(K :> PyList(<<it>>)) : it \in items}
        \cup {PyDict(K :> PyList(l)) : l \in ListsUpTo(MaxItems, repeated)}

S_AAPL == <<"A", "A", "P", "L">>
S_USD == <<"U", "S", "D">>
S_SELL == <<"S", "E", "L", "L">>
S_DATE == <<"2", "0", "2", "5", "0", "1", "0", "1">>
S_DATETIME == <<"2", "0", "2", "5", "0", "1", "0", "1", ";", "0", "9", "3", "0", "0", "0">>
S_REPORT_DATE == <<"2", "0", "2", "5", "0", "1", "0", "2">>
S_NEG10 == <<"-", "1", "0">>
S_POS10 == <<"1", "0">>
S_ZERO == <<"0">>
S_NOT_A_NUMBER == <<"N", "/", "A">>
S_NEG3 == <<"-", "3">>
S_25 == <<"2", "5">>
S_7 == <<"7">>
S_1500 == <<"1", "5", "0", "0">>
S_1400 == <<"1", "4", "0", "0">>
S_100 == <<"1", "0", "0">>
T_DIVIDENDS == <<"D", "i", "v", "i", "d", "e", "n", "d", "s">>
T_WITHHOLDING_TAX == <<"W", "i", "t", "h", "h", "o", "l", "d", "i", "n", "g", " ", "T", "a", "x">>
T_FOREIGN_TAX == <<"F", "o", "r", "e", "i", "g", "n", " ", "t", "a", "x">>
T_OTHER_FEES == <<"O", "t", "h", "e", "r", " ", "F", "e", "e", "s">>
D_CASH_DIVIDEND == <<"A", "A", "P", "L", " ", "C", "a", "s", "h", " ", "D", "i", "v", "i", "d", "e", "n", "d">>
D_WIRE == <<"W", "i", "r", "e">>
\* a type that contains "Deposits/Withdrawals" without being equal to it
T_DEPOSITS_FEE == DEPOSITS_WITHDRAWALS \o <<" ", "F", "e", "e">>

Lot(quantity, tradeDate, dateTime) ==
    Present(("@tradeDate" :> tradeDate) @@ ("@dateTime" :> dateTime)
            @@ ("@symbol" :> S_AAPL) @@ ("@quantity" :> quantity)
            @@ ("@proceeds" :> S_1500) @@ ("@cost" :> S_1400)
            @@ ("@fifoPnlRealized" :> S_100) @@ ("@buySell" :> S_SELL)
            @@ ("@currency" :> S_USD))

NumberTexts == {ABSENT, <<>>, S_NOT_A_NUMBER, S_NEG10, S_POS10, S_ZERO}

LotItems ==
    {Lot(q, S_DATE, S_DATETIME) : q \in NumberTexts}
        \cup {Lot(S_NEG10, ABSENT, S_DATETIME), Lot(S_NEG10, ABSENT, ABSENT),
              Lot(S_NEG10, <<>>, S_DATETIME), Lot(S_NEG10, ABSENT, S_DATE)}

RepeatedLots == {Lot(S_NEG10, S_DATE, S_DATETIME), Lot(S_POS10, ABSENT, S_DATETIME)}

CashTxn(type, description, amount, fxRate, dateTime) ==
    Present(("@type" :> type) @@ ("@description" :> description)
            @@ ("@amount" :> amount) @@ ("@fxRateToBase" :> fxRate)
            @@ ("@dateTime" :> dateTime) @@ ("@reportDate" :> S_REPORT_DATE)
            @@ ("@symbol" :> S_AAPL) @@ ("@currency" :> S_USD))

TxnTypes == {T_DIVIDENDS, T_WITHHOLDING_TAX, T_FOREIGN_TAX, T_OTHER_FEES,
             DEPOSITS_WITHDRAWALS, T_DEPOSITS_FEE, ABSENT}

CashItems ==
    {CashTxn(t, D_WIRE, a, ABSENT, S_DATETIME) : t \in TxnTypes, a \in {S_NEG3, S_25, <<>>}}
        \cup {CashTxn(t, D_CASH_DIVIDEND, S_NOT_A_NUMBER, S_7, ABSENT) :
                  t \in {T_OTHER_FEES, T_WITHHOLDING_TAX, DEPOSITS_WITHDRAWALS}}
        \cup {CashTxn(DEPOSITS_WITHDRAWALS, D_WIRE, a, f, S_DATE) :
                  a \in {ABSENT, S_NEG3, S_25}, f \in {S_7, S_NEG3, S_ZERO, <<>>}}

RepeatedTxns ==
    {CashTxn(T_DIVIDENDS, D_CASH_DIVIDEND, S_25, ABSENT, S_DATETIME),
     CashTxn(T_WITHHOLDING_TAX, D_CASH_DIVIDEND, S_NEG3, ABSENT, S_DATE),
     CashTxn(DEPOSITS_WITHDRAWALS, D_WIRE, S_NEG10, S_7, S_DATETIME)}

Tax(amount) ==
    Present(("@date" :> S_DATE) @@ ("@symbol" :> S_AAPL) @@ ("@amount" :> amount)
            @@ ("@currency" :> S_USD) @@ ("@code" :> T_WITHHOLDING_TAX))

TaxItems == {Tax(a) : a \in {ABSENT, <<>>, S_NOT_A_NUMBER, S_NEG3, S_25}}

RepeatedTaxes == {Tax(S_NEG3), Tax(S_25)}

OpenPosition(quantity, positionValue) ==
    Present(("@symbol" :> S_AAPL) @@ ("@quantity" :> quantity)
            @@ ("@positionValue" :> positionValue) @@ ("@currency" :> S_USD))

PositionItems == {OpenPosition(q, v) : q \in NumberTexts, v \in {ABSENT, S_1500}}

RepeatedPositions == {OpenPosition(S_POS10, S_1500), OpenPosition(S_NEG10, ABSENT)}

CashReportCurrency(currency, startingCash, endingCash) ==
    Present(("@currency" :> currency) @@ ("@startingCash" :> startingCash)
            @@ ("@endingCash" :> endingCash))

CashReportItems ==
    {CashReportCurrency(c, s, S_1500) :
         c \in {BASE_SUMMARY, S_USD, ABSENT}, s \in {ABSENT, <<>>, S_NOT_A_NUMBER, S_1400}}

RepeatedCashReports ==
    {CashReportCurrency(BASE_SUMMARY, S_1400, S_1500), CashReportCurrency(S_USD, S_100, S_25)}

AccountDoc(trades, taxes, cash, positions, report) ==
    Doc(("@accountId" :> PyStr(<<"U", "1">>)) @@ ("Trades" :> trades)
        @@ ("WithholdingTax" :> taxes) @@ ("CashTransactions" :> cash)
        @@ ("OpenPositions" :> positions) @@ ("CashReport" :> report))

\* the documents of the parser specification: each family varies the
\* sections one parse function reads and leaves the others out
Documents ==
    {AccountDoc(t, NoSection, NoSection, NoSection, NoSection) :
         t \in SectionShapes("Lot", LotItems, RepeatedLots)}
        \cup {AccountDoc(NoSection, w, c, NoSection, NoSection) :
                  w \in SectionShapes("Tax", TaxItems, RepeatedTaxes),
                  c \in SectionShapes("CashTransaction", CashItems, RepeatedTxns)}
        \cup {AccountDoc(NoSection, NoSection, NoSection, o, NoSection) :
                  o \in SectionShapes("OpenPosition", PositionItems, RepeatedPositions)}
        \cup {AccountDoc(NoSection, NoSection, NoSection, NoSection, r) :
                  r \in SectionShapes("CashReportCurrency", CashReportItems,
                                      RepeatedCashReports)}

(***************************************************************************)
(* cli.py: process_accounts                                                *)
(***************************************************************************)
RECURSIVE StrOfNat(_)
\* str(n) for an integer n >= 0, as in f"{year}0101" and f"Account_{idx + 1}"
StrOfNat(n) == IF n < 10 THEN <<Digits[n + 1]>> ELSE StrOfNat(n \div 10) \o <<Digits[(n % 10) + 1]>>

ACCOUNT_PREFIX == <<"A", "c", "c", "o", "u", "n", "t", "_">>

\* AccountId numbering the documents from 0
MutAccountIdZeroBased(account_data, idx) ==
    DictGet(account_data, "@accountId", PyStr(ACCOUNT_PREFIX \o StrOfNat(idx))).val

\* cli.py 479: account_data.get("@accountId", f"Account_{idx + 1}")
AccountId(account_data, idx) ==
    DictGet(account_data, "@accountId", PyStr(ACCOUNT_PREFIX \o StrOfNat(idx + 1))).val

\* cli.py 488: df["Account"] = account_id
Tagged(table, account_id) ==
    [i \in 1..Len(table) |-> table[i] @@ ("Account" :> account_id)]

\* the four parse calls of cli.py 482-485 / 520-523 on one account document:
\* the four tables, or the first exception raised
ParseFour(account_data) ==
    LET t == parse_trades(account_data)
        d == parse_dividends(account_data)
        w == parse_withholding_tax(account_data)
        c == parse_deposits_withdrawals(account_data)
    IN  IF t.kind = "raise" THEN t
        ELSE IF d.kind = "raise" THEN d
        ELSE IF w.kind = "raise" THEN w
        ELSE IF c.kind = "raise" THEN c
        ELSE Ok(<<t.val, d.val, w.val, c.val>>)

\* column-wise concatenation of two quadruples of tables
Concat4(a, b) == <<a[1] \o b[1], a[2] \o b[2], a[3] \o b[3], a[4] \o b[4]>>

NoTables == <<EmptyFrame, EmptyFrame, EmptyFrame, EmptyFrame>>

RECURSIVE AccountsFrom(_, _)
\* cli.py 478-510: the loop over the accounts from index idx (0-based) on,
\* and the concatenation of their tagged tables
AccountsFrom(accounts, idx) ==
    IF idx >= Len(accounts) THEN Ok(NoTables)
    ELSE IF accounts[idx + 1].kind # "dict" THEN Raise("AttributeError")
    ELSE LET account_data == accounts[idx + 1].val
             four == ParseFour(account_data)
             rest == AccountsFrom(accounts, idx + 1)
         IN  IF four.kind = "raise" THEN four
             ELSE IF rest.kind = "raise" THEN rest
             ELSE Ok(Concat4([k \in 1..4 |-> Tagged(four.val[k], AccountId(account_data, idx))],
                             rest.val))

\* cli.py 458-525
process_accounts(data) ==
    IF data.kind = "list" THEN AccountsFrom(data.val, 0)
    ELSE IF data.kind = "dict" THEN ParseFour(data.val)
    ELSE Raise("AttributeError")

(***************************************************************************)
(* What the reporting service holds: the statement of a period, for one    *)
(* account or for two.  Rows differ by year and by account.                *)
(***************************************************************************)
S_MSFT == <<"M", "S", "F", "T">>
S_0101 == <<"0", "1", "0", "1">>
S_1231 == <<"1", "2", "3", "1">>
S_0315 == <<"0", "3", "1", "5">>
S_0620 == <<"0", "6", "2", "0">>
S_U == <<"U">>

YearLot(y, a) ==
    ("@tradeDate" :> (StrOfNat(y) \o S_0315)) @@ ("@symbol" :> (IF a = 1 THEN S_AAPL ELSE S_MSFT))
    @@ ("@quantity" :> S_NEG10)

YearTxn(y, a, type, amount) ==
    ("@type" :> type) @@ ("@dateTime" :> (StrOfNat(y) \o S_0620))
    @@ ("@symbol" :> (IF a = 1 THEN S_AAPL ELSE S_MSFT)) @@ ("@amount" :> amount)

\* the statement of account a for year y (y = 0: the query's default period)
YearDoc(y, a) ==
    ("@accountId" :> PyStr(S_U \o StrOfNat(a)))
    @@ ("Trades" :> PyDict("Lot" :> PyDict(YearLot(y, a))))
    @@ ("CashTransactions" :>
            PyDict("CashTransaction" :>
                PyList(<<YearTxn(y, a, T_DIVIDENDS, S_25),
                         YearTxn(y, a, T_WITHHOLDING_TAX, S_NEG3),
                         YearTxn(y, a, DEPOSITS_WITHDRAWALS, S_1500)>>)))

\* the FlexStatement node of a response: one statement is a bare mapping,
\* several are a list
ServerStatements(y) ==
    {PyDict(YearDoc(y, 1)), PyList(<<PyDict(YearDoc(y, 1)), PyDict(YearDoc(y, 2))>>)}

(***************************************************************************)
(* State.                                                                  *)
(***************************************************************************)
VARIABLES
    flex_data,      \* parser specification: the document handed to a parse function
    fn,             \* the parse function applied to it, "" before the call
    out,            \* what that call returned or raised
    entry,          \* the operation that was called: "get_report", "fetch_data", "main"
    pc,             \* where the program is
    from_date,      \* fetch_data / request_report arguments (PyNone or PyStr)
    to_date,
    req_year,       \* the year the requested period lies in (0: the default period)
    reference_code, \* the code request_report returned, polled by get_report
    max_retries,    \* get_report's argument
    attempt,        \* get_report's loop variable
    log,            \* network calls and sleeps of the current fetch, in order
    resps,          \* the responses get_report has received in this call
    outcome,        \* what the current fetch returned or raised
    args,           \* main: the command-line options and FIRST_TRADE_YEAR
    years_to_fetch, \* main
    yi,             \* main: number of years the multi-year loop has handled
    all_data,       \* main: the per-year results fetched so far
    fetched_years,  \* main: the years whose fetch_data call returned
    fetch_calls,    \* main: the (from_date, to_date) of every fetch_data call, in order
    data,           \* main: what the fetch step hands to the parse step
    tables,         \* main: <<trades_df, dividends_df, tax_df, deposits_withdrawals_df>>
    exit_code,      \* main: the status sys.exit was called with, -1 while running
    call,           \* summary / performance: the arguments of the call
    rate,           \* what the exchange rate service answers for each date
    cache,          \* ExchangeRateService: normalized date -> rate
    cache_file,     \* ExchangeRateService: what the cache file holds
    fetched,        \* history: the _fetch_rate_from_api calls made for each date
    returned,       \* history: what get_rate first returned for each date
    configs,        \* StopLossManager: symbol -> StopLossConfig
    config_file,    \* StopLossManager: what the configuration file holds
    now,            \* datetime.now(), counted in calls
    client_log      \* StopLossChecker: the calls made on the trading client, in order

parseVars == <<flex_data, fn, out>>

fetchVars == <<entry, pc, from_date, to_date, req_year, reference_code, max_retries,
               attempt, log, resps, outcome>>

mainVars == <<args, years_to_fetch, yi, all_data, fetched_years, fetch_calls, data,
              tables, exit_code>>

calcVars == <<call, rate>>

rateVars == <<cache, cache_file, fetched, returned>>

stopVars == <<configs, config_file, now, client_log>>

serviceVars == <<rateVars, stopVars>>

vars == <<parseVars, fetchVars, mainVars, calcVars, serviceVars>>

NotCalled == [kind |-> "none"]

\* raise APIError(text), text being a format and the value put into it
APIError(fmt, value) == [kind |-> "raise", exc |-> "APIError", fmt |-> fmt, with |-> value]

NoArgs == [year |-> 0, from_year |-> 0, all |-> FALSE, first_trade_year |-> 0]

ParseIdle ==
    /\ flex_data = <<>>
    /\ fn = "idle"
    /\ out = NotCalled

FetchIdle ==
    /\ entry = "parse"
    /\ pc = "idle"
    /\ from_date = PyNone
    /\ to_date = PyNone
    /\ req_year = 0
    /\ reference_code = ""
    /\ max_retries = 0
    /\ attempt = 0
    /\ log = <<>>
    /\ resps = <<>>
    /\ outcome = NotCalled

CalcIdle ==
    /\ call = <<>>
    /\ rate = <<>>

RateIdle ==
    /\ cache = <<>>
    /\ cache_file = <<>>
    /\ fetched = <<>>
    /\ returned = <<>>

StopIdle ==
    /\ configs = <<>>
    /\ config_file = <<>>
    /\ now = 0
    /\ client_log = <<>>

ServiceIdle == RateIdle /\ StopIdle

MainIdle ==
    /\ args = NoArgs
    /\ years_to_fetch = <<>>
    /\ yi = 0
    /\ all_data = <<>>
    /\ fetched_years = <<>>
    /\ fetch_calls = <<>>
    /\ data = PyNone
    /\ tables = NoTables
    /\ exit_code = 0 - 1

(***************************************************************************)
(* The parser specification: a document, and one parse function applied.   *)
(***************************************************************************)
InitParse ==
    /\ ServiceIdle
    /\ flex_data \in Documents
    /\ fn = ""
    /\ out = NotCalled
    /\ FetchIdle
    /\ MainIdle
    /\ CalcIdle

ParseTrades ==
    /\ fn = ""
    /\ fn' = "parse_trades"
    /\ out' = parse_trades(flex_data)
    /\ UNCHANGED <<serviceVars, calcVars, flex_data, fetchVars, mainVars>>

ParseDividends ==
    /\ fn = ""
    /\ fn' = "parse_dividends"
    /\ out' = parse_dividends(flex_data)
    /\ UNCHANGED <<serviceVars, calcVars, flex_data, fetchVars, mainVars>>

ParseWithholdingTax ==
    /\ fn = ""
    /\ fn' = "parse_withholding_tax"
    /\ out' = parse_withholding_tax(flex_data)
    /\ UNCHANGED <<serviceVars, calcVars, flex_data, fetchVars, mainVars>>

ParseDepositsWithdrawals ==
    /\ fn = ""
    /\ fn' = "parse_deposits_withdrawals"
    /\ out' = parse_deposits_withdrawals(flex_data)
    /\ UNCHANGED <<serviceVars, calcVars, flex_data, fetchVars, mainVars>>

ParseOpenPositions ==
    /\ fn = ""
    /\ fn' = "parse_open_positions"
    /\ out' = parse_open_positions(flex_data)
    /\ UNCHANGED <<serviceVars, calcVars, flex_data, fetchVars, mainVars>>

ParseCashReport ==
    /\ fn = ""
    /\ fn' = "parse_cash_report"
    /\ out' = parse_cash_report(flex_data)
    /\ UNCHANGED <<serviceVars, calcVars, flex_data, fetchVars, mainVars>>

NextParse ==
    \/ ParseTrades
    \/ ParseDividends
    \/ ParseWithholdingTax
    \/ ParseDepositsWithdrawals
    \/ ParseOpenPositions
    \/ ParseCashReport

SpecParse == InitParse /\ [][NextParse]_vars

(***************************************************************************)
(* The accounts specification: process_accounts applied to one account     *)
(* document or to a list of them.                                          *)
(***************************************************************************)
\* longest list of account documents
MaxAccounts == 3

\* an account statement: its rows carry the symbol, so that the rows of
\* different statements differ
Statement(id, symbol, quantities, types, taxes) ==
    Doc(("@accountId" :> (IF id = ABSENT THEN NoSection ELSE PyStr(id)))
        @@ ("Trades" :>
               (IF quantities = <<>> THEN NoSection
                ELSE PyDict("Lot" :> PyList([i \in 1..Len(quantities) |->
                         ("@symbol" :> symbol) @@ ("@quantity" :> quantities[i])]))))
        @@ ("CashTransactions" :>
               (IF types = <<>> THEN PyNone
                ELSE PyDict("CashTransaction" :> PyList([i \in 1..Len(types) |->
                         ("@symbol" :> symbol) @@ ("@type" :> types[i])
                         @@ ("@amount" :> S_25)]))))
        @@ ("WithholdingTax" :> taxes))

\* the statements given to process_accounts: with and without @accountId,
\* with rows of every record type, of some, of none; the last one has an
\* empty WithholdingTax element, on which parse_withholding_tax raises
Statements ==
    {Statement(<<"U", "1">>, S_AAPL, <<S_NEG10>>,
               <<T_DIVIDENDS, DEPOSITS_WITHDRAWALS, T_WITHHOLDING_TAX>>, NoSection),
     Statement(<<"U", "2">>, S_MSFT, <<S_POS10, S_NEG3>>, <<>>, NoSection),
     Statement(ABSENT, S_USD, <<S_7>>, <<T_DIVIDENDS>>,
               PyDict("Tax" :> PyDict(("@symbol" :> S_USD) @@ ("@amount" :> S_NEG3)))),
     Statement(ABSENT, S_SELL, <<>>, <<>>, NoSection),
     Statement(<<"U", "3">>, S_SELL, <<S_7>>, <<>>, PyNone)}

\* the argument of process_accounts: a single statement, or a list of them
AccountInputs ==
    {PyDict(d) : d \in Statements}
        \cup {PyList([i \in 1..Len(l) |-> PyDict(l[i])]) : l \in ListsUpTo(MaxAccounts, Statements)}

InitAccounts ==
    /\ ServiceIdle
    /\ data \in AccountInputs
    /\ flex_data = <<>>
    /\ fn = ""
    /\ out = NotCalled
    /\ FetchIdle
    /\ CalcIdle
    /\ args = NoArgs
    /\ years_to_fetch = <<>>
    /\ yi = 0
    /\ all_data = <<>>
    /\ fetched_years = <<>>
    /\ fetch_calls = <<>>
    /\ tables = NoTables
    /\ exit_code = 0 - 1

\* trades_df, dividends_df, tax_df, deposits_withdrawals_df = process_accounts(data)
ProcessAccounts ==
    /\ fn = ""
    /\ fn' = "process_accounts"
    /\ out' = process_accounts(data)
    /\ tables' = IF process_accounts(data).kind = "ok" THEN process_accounts(data).val
                 ELSE tables
    /\ UNCHANGED <<serviceVars, calcVars, flex_data, fetchVars, args,
                   years_to_fetch, yi, all_data, fetched_years, fetch_calls,
                   data, exit_code>>

NextAccounts == ProcessAccounts

SpecAccounts == InitAccounts /\ [][NextAccounts]_vars

(***************************************************************************)
(* parsers/data_parser.py: calculate_summary.  A DataFrame is the sequence *)
(* of its rows.  Amounts are whole numbers, as the parse functions produce *)
(* them here; an exchange rate is kept in hundredths (7.2 is 720); a       *)
(* figure before rounding is kept in thousandths, a figure rounded to two  *)
(* decimals in hundredths, one rounded to four in ten-thousandths.         *)
(***************************************************************************)
DataFrame(rows) == [kind |-> "frame", val |-> rows]

\* df.empty
Empty(df) == Len(df.val) = 0

\* df[df[col] == v]
RowsWhere(rows, col, v) == SelectSeq(rows, LAMBDA r : r[col] = v)

RECURSIVE ColumnSum(_, _)
\* df[col].sum(), 0 for no row
ColumnSum(rows, col) ==
    IF rows = <<>> THEN 0 ELSE rows[1][col] + ColumnSum(Tail(rows), col)

\* the nearest integer to n / d for d > 0, a tie going to the even one
RoundDiv(n, d) ==
    LET q == n \div d
        r == n % d
    IN  IF 2 * r < d THEN q
        ELSE IF 2 * r > d THEN q + 1
        ELSE IF q % 2 = 0 THEN q ELSE q + 1

\* round(x, 2), x in thousandths
Round2(x) == RoundDiv(x, 10)

NaN == [kind |-> "nan"]
Float(x) == [kind |-> "float", val |-> x]

\* services/exchange_rate.py 46-79: rate_service.get_rate(d, default_rate)
\* answers with the rate it has cached or fetched for the date, or with
\* default_rate when it has none (rates[d] = 0)
get_rate(rates, d, default_rate) ==
    IF rates[d] = 0 THEN default_rate ELSE rates[d]

RECURSIVE ExchangeRateSum(_, _, _)
\* usd["Exchange_Rate"].sum(), in hundredths
ExchangeRateSum(rows, rates, default_rate) ==
    IF rows = <<>> THEN 0
    ELSE get_rate(rates, rows[1]["Date"], default_rate)
         + ExchangeRateSum(Tail(rows), rates, default_rate)

RECURSIVE CnySum(_, _, _, _)
\* (usd[col] * usd["Exchange_Rate"]).sum(), in thousandths
CnySum(rows, col, rates, default_rate) ==
    IF rows = <<>> THEN 0
    ELSE rows[1][col] * get_rate(rates, rows[1]["Date"], default_rate) * 10
         + CnySum(Tail(rows), col, rates, default_rate)

\* data_parser.py 304-320, 342-353, 368-379: the CNY total of a column of
\* the USD rows, in thousandths
TotalCny(usd, col, dynamic, rates, default_rate) ==
    IF dynamic THEN CnySum(usd, col, rates, default_rate)
    ELSE ColumnSum(usd, col) * default_rate * 10

\* round(avg_rate, 4): the mean of the rows' rates, NaN for no row, or the
\* default rate
AverageExchangeRate(usd, dynamic, rates, default_rate) ==
    IF dynamic
    THEN IF usd = <<>> THEN NaN
         ELSE Float(RoundDiv(ExchangeRateSum(usd, rates, default_rate) * 100, Len(usd)))
    ELSE Float(default_rate * 100)

\* data_parser.py 300-335
TradeSummary(trades_df, dynamic, rates, default_rate) ==
    LET usd_trades == RowsWhere(trades_df.val, "Currency", S_USD)
        total_pnl_cny == TotalCny(usd_trades, "Realized P&L", dynamic, rates, default_rate)
        total_commission_cny == TotalCny(usd_trades, "Commission", dynamic, rates, default_rate)
        total_pnl == ColumnSum(usd_trades, "Realized P&L") * 1000
        total_commission == ColumnSum(usd_trades, "Commission") * 1000
    IN  ("Total_Trades" :> Len(trades_df.val))
        @@ ("USD_Trades" :> Len(usd_trades))
        @@ ("Realized_P&L_USD" :> Round2(total_pnl))
        @@ ("Realized_P&L_CNY" :> Round2(total_pnl_cny))
        @@ ("Total_Commission_USD" :> Round2(total_commission))
        @@ ("Total_Commission_CNY" :> Round2(total_commission_cny))
        @@ ("Net_P&L_USD" :> Round2(total_pnl - total_commission))
        @@ ("Net_P&L_CNY" :> Round2(total_pnl_cny - total_commission_cny))
        @@ ("Average_Exchange_Rate"
            :> AverageExchangeRate(usd_trades, dynamic, rates, default_rate))

\* data_parser.py 338-361
DividendSummary(dividends_df, dynamic, rates, default_rate) ==
    LET usd_divs == RowsWhere(dividends_df.val, "Currency", S_USD)
    IN  ("Total_Dividends" :> Len(dividends_df.val))
        @@ ("Total_Amount_USD" :> Round2(ColumnSum(usd_divs, "Amount") * 1000))
        @@ ("Total_Amount_CNY"
            :> Round2(TotalCny(usd_divs, "Amount", dynamic, rates, default_rate)))
        @@ ("Average_Exchange_Rate"
            :> AverageExchangeRate(usd_divs, dynamic, rates, default_rate))

\* data_parser.py 364-386
TaxSummary(tax_df, dynamic, rates, default_rate) ==
    LET usd_tax == RowsWhere(tax_df.val, "Currency", S_USD)
    IN  ("Total_Withholding_Tax_USD" :> Round2(ColumnSum(usd_tax, "Amount") * 1000))
        @@ ("Total_Withholding_Tax_CNY"
            :> Round2(TotalCny(usd_tax, "Amount", dynamic, rates, default_rate)))
        @@ ("Average_Exchange_Rate"
            :> AverageExchangeRate(usd_tax, dynamic, rates, default_rate))

Min(a, b) == IF a <= b THEN a ELSE b

\* ForeignTaxCredit without the limit of 20% of the dividends
MutForeignTaxCreditUnlimited(summary) ==
    IF "Tax_Summary" \in DOMAIN summary
    THEN summary["Tax_Summary"]["Total_Withholding_Tax_CNY"] * 10
    ELSE 0

\* data_parser.py 396-402: foreign_tax_credit, in thousandths
ForeignTaxCredit(summary) ==
    IF "Tax_Summary" \in DOMAIN summary
    THEN Min(summary["Tax_Summary"]["Total_Withholding_Tax_CNY"] * 10,
             summary["Dividend_Summary"]["Total_Amount_CNY"] * 2)
    ELSE 0

\* data_parser.py 390-409
ChinaTaxCalculation(summary) ==
    LET taxable_income_cny == (summary["Trade_Summary"]["Net_P&L_CNY"]
                               + summary["Dividend_Summary"]["Total_Amount_CNY"]) * 10
        tax_due_20_pct == (taxable_income_cny * 2) \div 10
        foreign_tax_credit == ForeignTaxCredit(summary)
    IN  ("Taxable_Income_CNY" :> Round2(taxable_income_cny))
        @@ ("Tax_Due_20pct_CNY" :> Round2(tax_due_20_pct))
        @@ ("Foreign_Tax_Credit_CNY" :> Round2(foreign_tax_credit))
        @@ ("Tax_Payable_CNY" :> Round2(tax_due_20_pct - foreign_tax_credit))

\* data_parser.py 413-428
AccountSummary(deposits_withdrawals_df) ==
    LET deposits == RowsWhere(deposits_withdrawals_df.val, "Transaction_Type", "Deposit")
        withdrawals == RowsWhere(deposits_withdrawals_df.val, "Transaction_Type",
                                 "Withdrawal")
        total_deposits_base == ColumnSum(deposits, "Amount_Base_Currency") * 1000
        total_withdrawals_base == Abs(ColumnSum(withdrawals, "Amount_Base_Currency")) * 1000
    IN  ("Total_Deposits_Count" :> Len(deposits))
        @@ ("Total_Withdrawals_Count" :> Len(withdrawals))
        @@ ("Total_Deposits_Base_Currency" :> Round2(total_deposits_base))
        @@ ("Total_Withdrawals_Base_Currency" :> Round2(total_withdrawals_base))
        @@ ("Net_Deposits_Base_Currency"
            :> Round2(total_deposits_base - total_withdrawals_base))

\* HasAccountSummary without the test for an empty table
MutHasAccountSummaryWhenEmpty(deposits_withdrawals_df) ==
    deposits_withdrawals_df.kind # "None"

\* data_parser.py 412: deposits_withdrawals_df is not None and not empty
HasAccountSummary(deposits_withdrawals_df) ==
    deposits_withdrawals_df.kind # "None" /\ ~Empty(deposits_withdrawals_df)

\* summary[key] = value if present, the dictionary unchanged otherwise
With(summary, present, key, value) ==
    IF present THEN summary @@ (key :> value) ELSE summary

\* data_parser.py 272-430
calculate_summary(trades_df, dividends_df, tax_df, deposits_withdrawals_df, use_dynamic_rates, default_rate, rates) ==
    LET s1 == With(EmptyMapping, ~Empty(trades_df), "Trade_Summary",
                   TradeSummary(trades_df, use_dynamic_rates, rates, default_rate))
        s2 == With(s1, ~Empty(dividends_df), "Dividend_Summary",
                   DividendSummary(dividends_df, use_dynamic_rates, rates, default_rate))
        s3 == With(s2, ~Empty(tax_df), "Tax_Summary",
                   TaxSummary(tax_df, use_dynamic_rates, rates, default_rate))
        s4 == With(s3, "Trade_Summary" \in DOMAIN s3 /\ "Dividend_Summary" \in DOMAIN s3,
                   "China_Tax_Calculation", ChinaTaxCalculation(s3))
    IN  Ok(With(s4, HasAccountSummary(deposits_withdrawals_df), "Account_Summary",
                AccountSummary(deposits_withdrawals_df)))

(***************************************************************************)
(* The summary specification: the tables of a report, the rate options,    *)
(* and one call of calculate_summary.                                      *)
(***************************************************************************)
MaxRows == 2

D_DEC == <<"2", "0", "2", "4", "1", "2", "1", "5">>
D_JAN == <<"2", "0", "2", "5", "0", "1", "1", "0">>
D_MAR == <<"2", "0", "2", "5", "0", "3", "0", "5">>
S_EUR == <<"E", "U", "R">>

SummaryTrade(date, currency, pnl, cost) ==
    ("Date" :> date) @@ ("Currency" :> currency) @@ ("Realized P&L" :> pnl)
    @@ ("Commission" :> 0) @@ ("Cost" :> cost)

SummaryAmount(date, currency, amount) ==
    ("Date" :> date) @@ ("Currency" :> currency) @@ ("Amount" :> amount)

SummaryDeposit(date, amount_base) ==
    ("Date" :> date) @@ ("Transaction_Type" :> TransactionType(amount_base))
    @@ ("Amount_Base_Currency" :> amount_base)

SummaryTradeRows ==
    {SummaryTrade(D_JAN, S_USD, 100, 1000),
     SummaryTrade(D_MAR, S_USD, 0 - 341, 0 - 2000),
     SummaryTrade(D_JAN, S_EUR, 7, 500)}

SummaryDividendRows ==
    {SummaryAmount(D_MAR, S_USD, 53), SummaryAmount(D_JAN, S_EUR, 9)}

FramesUpTo(n, rows) == {DataFrame(<<>>)} \cup {DataFrame(l) : l \in ListsUpTo(n, rows)}

SummaryTaxTables ==
    {DataFrame(<<>>),
     DataFrame(<<SummaryAmount(D_JAN, S_USD, 5)>>),
     DataFrame(<<SummaryAmount(D_JAN, S_USD, 30), SummaryAmount(D_MAR, S_USD, 4)>>),
     DataFrame(<<SummaryAmount(D_JAN, S_EUR, 8)>>)}

SummaryDepositTables ==
    {PyNone,
     DataFrame(<<>>),
     DataFrame(<<SummaryDeposit(D_DEC, 5000), SummaryDeposit(D_JAN, 0 - 1000)>>)}

DEFAULT_RATE == 720

\* the answers of the exchange rate service, 0 where it has no rate
RateAnswers ==
    {(D_DEC :> 718) @@ (D_JAN :> 715) @@ (D_MAR :> 731),
     (D_DEC :> 718) @@ (D_JAN :> 0) @@ (D_MAR :> 721)}

SummaryCalls ==
    [trades_df : FramesUpTo(MaxRows, SummaryTradeRows),
     dividends_df : FramesUpTo(MaxRows, SummaryDividendRows),
     tax_df : SummaryTaxTables,
     deposits_withdrawals_df : SummaryDepositTables,
     use_dynamic_rates : BOOLEAN,
     default_rate : {DEFAULT_RATE}]

InitSummary ==
    /\ ServiceIdle
    /\ call \in SummaryCalls
    /\ rate \in RateAnswers
    /\ flex_data = <<>>
    /\ fn = ""
    /\ out = NotCalled
    /\ FetchIdle
    /\ MainIdle

\* cli.py 765-772: summary = calculate_summary(...)
CalculateSummary ==
    /\ fn = ""
    /\ fn' = "calculate_summary"
    /\ out' = calculate_summary(call.trades_df, call.dividends_df, call.tax_df,
                                call.deposits_withdrawals_df, call.use_dynamic_rates,
                                call.default_rate, rate)
    /\ UNCHANGED <<serviceVars, calcVars, flex_data, fetchVars, mainVars>>

NextSummary == CalculateSummary

SpecSummary == InitSummary /\ [][NextSummary]_vars

(***************************************************************************)
(* parsers/data_parser.py: calculate_performance.  The model holds the     *)
(* USD figures, the returns and the investment period of                   *)
(* Performance_Summary and Position_Details; a percentage rounded to two   *)
(* decimals is kept in hundredths of a percent.  The CNY figures and       *)
(* Avg_Exchange_Rate are left out: none of them can raise on the tables of *)
(* the model.                                                              *)
(***************************************************************************)
\* the order of characters in date texts: "-" sorts before the digits
CharRank(c) == IF IsDigit(c) THEN 1 + DigitVal(c) ELSE 0

RECURSIVE StrLess(_, _)
\* a < b for Python strings
StrLess(a, b) ==
    IF b = <<>> THEN FALSE
    ELSE IF a = <<>> THEN TRUE
    ELSE IF a[1] = b[1] THEN StrLess(Tail(a), Tail(b))
    ELSE CharRank(a[1]) < CharRank(b[1])

\* series.min() and series.max() of a non-empty column of strings
StrMin(S) == CHOOSE a \in S : \A b \in S : ~StrLess(b, a)
StrMax(S) == CHOOSE a \in S : \A b \in S : ~StrLess(a, b)

\* the values of a column
Column(df, col) == {df.val[i][col] : i \in 1..Len(df.val)}

IsLeap(y) == (y % 4 = 0 /\ y % 100 # 0) \/ y % 400 = 0

DaysInMonth(y, m) ==
    IF m = 2 THEN (IF IsLeap(y) THEN 29 ELSE 28)
    ELSE IF m \in {4, 6, 9, 11} THEN 30 ELSE 31

RECURSIVE DaysBeforeMonth(_, _)
DaysBeforeMonth(y, m) ==
    IF m = 1 THEN 0 ELSE DaysBeforeMonth(y, m - 1) + DaysInMonth(y, m - 1)

\* date.toordinal()
Ordinal(y, m, d) ==
    365 * (y - 1) + (y - 1) \div 4 - (y - 1) \div 100 + (y - 1) \div 400
    + DaysBeforeMonth(y, m) + d

\* datetime.strptime(s, "%Y%m%d") for the date texts of the model (eight
\* characters, or some that are no digits): the day number, or ValueError
Strptime(s) ==
    IF Len(s) = 8 /\ AllDigits(s)
    THEN LET y == DigitsVal(SubSeq(s, 1, 4))
             m == DigitsVal(SubSeq(s, 5, 6))
             d == DigitsVal(SubSeq(s, 7, 8))
         IN  IF y >= 1 /\ m \in 1..12 /\ d >= 1 /\ d <= DaysInMonth(y, m)
             THEN Ok(Ordinal(y, m, d))
             ELSE Raise("ValueError")
    ELSE Raise("ValueError")

\* data_parser.py 645-660: the dates from_date and to_date are taken over
InvestmentDates(trades_df, dividends_df, deposits_withdrawals_df) ==
    IF ~Empty(trades_df) /\ ~Empty(dividends_df) /\ ~Empty(deposits_withdrawals_df)
    THEN Column(trades_df, "Date") \cup Column(dividends_df, "Date")
         \cup Column(deposits_withdrawals_df, "Date")
    ELSE IF ~Empty(trades_df) THEN Column(trades_df, "Date")
    ELSE {}

\* data_parser.py 662-670: investment_days from the dates
DaysOver(dates) ==
    IF dates = {} \/ StrMin(dates) = <<>> \/ StrMax(dates) = <<>> THEN 1
    ELSE IF Strptime(StrMin(dates)).kind = "ok" /\ Strptime(StrMax(dates)).kind = "ok"
    THEN Strptime(StrMax(dates)).val - Strptime(StrMin(dates)).val + 1
    ELSE 1

\* data_parser.py 645-670
InvestmentDays(trades_df, dividends_df, deposits_withdrawals_df) ==
    DaysOver(InvestmentDates(trades_df, dividends_df, deposits_withdrawals_df))

\* round(n / d * 100, 2) in hundredths of a percent, d # 0
PercentOf(n, d) ==
    IF d > 0 THEN RoundDiv(n * 10000, d) ELSE RoundDiv((0 - n) * 10000, 0 - d)

\* data_parser.py 673: if beginning_net_worth_usd > 0
HasTotalReturn(beginning_net_worth_usd) == beginning_net_worth_usd > 0

\* data_parser.py 694: if realized_costs > 0
HasRealizedRoi(realized_costs) == realized_costs > 0

\* data_parser.py 688-701: round(realized_roi, 2)
RealizedRoi(trades_df) ==
    LET usd_trades == RowsWhere(trades_df.val, "Currency", S_USD)
        realized_gains == ColumnSum(usd_trades, "Realized P&L")
        realized_costs == ColumnSum(usd_trades, "Cost")
    IN  IF ~Empty(trades_df) /\ HasRealizedRoi(realized_costs)
        THEN PercentOf(realized_gains, realized_costs)
        ELSE 0

RECURSIVE Log2Floor(_, _)
\* the largest k >= 0 with m * 2^k <= n, 0 when there is none (m > 0)
Log2Floor(n, m) == IF n < 2 * m THEN 0 ELSE 1 + Log2Floor(n, 2 * m)

\* whether |n / m| ** (365 / days) is beyond the largest float, 2^1024.
\* Exact unless the power lies within a factor 2^(365 / days) below that
\* bound, which no call of the model comes near.
PowOverflows(n, m, days) == 365 * Log2Floor(Abs(n), m) >= 1024 * days

\* data_parser.py 682-686 and 721: annualized_return and its rounding, for
\* total_return = (n / m - 1) * 100 with m > 0.  A Python float raised to a
\* power raises OverflowError beyond the largest float and gives a complex
\* number, which round() rejects, for a negative base and a fractional
\* exponent; a numpy float gives inf and nan there.
AnnualizedReturn(n, m, days, numpy) ==
    IF n < 0 /\ 365 % days # 0
    THEN IF numpy THEN Ok([kind |-> "nan"]) ELSE Raise("TypeError")
    ELSE IF PowOverflows(n, m, days)
    THEN IF numpy THEN Ok([kind |-> "inf"]) ELSE Raise("OverflowError")
    ELSE Ok([kind |-> "float", base |-> <<n, m>>, days |-> days])

\* the events of a table: {"date": row["Date"], "change": row[col]} per row
EventsOf(df, col) ==
    [i \in 1..Len(df.val) |-> [date |-> df.val[i]["Date"], change |-> df.val[i][col]]]

\* PlaceOf: the number of leading events of a sorted list that do not come
\* after e
RECURSIVE PlaceOf(_, _)
\* PlaceOf that puts an event before those of the same date
MutPlaceOfBeforeEqual(sorted, e) ==
    IF sorted = <<>> \/ ~StrLess(sorted[1].date, e.date) THEN 0
    ELSE 1 + PlaceOf(Tail(sorted), e)

PlaceOf(sorted, e) ==
    IF sorted = <<>> \/ StrLess(e.date, sorted[1].date) THEN 0
    ELSE 1 + PlaceOf(Tail(sorted), e)

RECURSIVE SortByDate(_)
\* events.sort(key=lambda x: x["date"]): a stable sort
SortByDate(events) ==
    IF events = <<>> THEN <<>>
    ELSE LET sorted == SortByDate(SubSeq(events, 1, Len(events) - 1))
             e == events[Len(events)]
             k == PlaceOf(sorted, e)
         IN  SubSeq(sorted, 1, k) \o <<e>> \o SubSeq(sorted, k + 1, Len(sorted))

\* a drawdown n / d x 100 is kept as the fraction <<n, d>> with d > 0
Fraction(n, d) == IF d > 0 THEN <<n, d>> ELSE <<0 - n, 0 - d>>

\* max(a, b) of two fractions
FractionMax(a, b) == IF a[1] * b[2] < b[1] * a[2] THEN b ELSE a

Max(a, b) == IF a < b THEN b ELSE a

RECURSIVE WalkEvents(_, _, _, _)
\* data_parser.py 801-808: the loop over the sorted events; the peak and the
\* largest drawdown after the last event
WalkEvents(events, current_value, peak_value, max_drawdown) ==
    IF events = <<>> THEN [peak_value |-> peak_value, max_drawdown |-> max_drawdown]
    ELSE LET current == current_value + events[1].change
             peak == Max(peak_value, current)
         IN  WalkEvents(Tail(events), current, peak,
                        IF peak > 0
                        THEN FractionMax(max_drawdown, Fraction(peak - current, peak))
                        ELSE max_drawdown)

\* data_parser.py 747-816: _calculate_max_drawdown
calculate_max_drawdown(trades_df, dividends_df, deposits_withdrawals_df, beginning_net_worth, ending_net_worth) ==
    LET events == EventsOf(trades_df, "Realized P&L") \o EventsOf(dividends_df, "Amount")
                  \o EventsOf(deposits_withdrawals_df, "Amount_Base_Currency")
        walked == WalkEvents(SortByDate(events), beginning_net_worth, beginning_net_worth,
                             Fraction(0, 1))
    IN  IF beginning_net_worth = 0 THEN Fraction(0, 1)
        ELSE IF events = <<>>
        THEN IF ending_net_worth < beginning_net_worth
             THEN Fraction(beginning_net_worth - ending_net_worth, beginning_net_worth)
             ELSE Fraction(0, 1)
        ELSE IF walked.peak_value > 0
        THEN FractionMax(walked.max_drawdown,
                         Fraction(walked.peak_value - ending_net_worth, walked.peak_value))
        ELSE walked.max_drawdown

\* cash_report.get(key, 0.0) under `if cash_report`
CashOf(cash_report, key) ==
    IF key \in DOMAIN cash_report THEN cash_report[key] ELSE 0

\* data_parser.py 540-745
calculate_performance(trades_df, dividends_df, deposits_withdrawals_df, open_positions_df, cash_report) ==
    LET beginning_cash == CashOf(cash_report, "Starting_Cash")
        ending_cash == CashOf(cash_report, "Ending_Cash")
        usd_positions == RowsWhere(open_positions_df.val, "Currency", S_USD)
        ending_positions_value_usd == ColumnSum(usd_positions, "Position_Value")
        beginning_net_worth_usd == beginning_cash
        ending_net_worth_usd == ending_cash + ending_positions_value_usd
        net_deposits_usd == ColumnSum(deposits_withdrawals_df.val, "Amount_Base_Currency")
        investment_days == InvestmentDays(trades_df, dividends_df,
                                          deposits_withdrawals_df)
        has_return == HasTotalReturn(beginning_net_worth_usd)
        gain == ending_net_worth_usd - beginning_net_worth_usd - net_deposits_usd
        total_return == IF has_return THEN PercentOf(gain, beginning_net_worth_usd) ELSE 0
        \* pandas sums are numpy floats, the cash report holds Python floats
        numpy == ~Empty(open_positions_df) \/ ~Empty(deposits_withdrawals_df)
        annualized_return ==
            IF has_return
            THEN AnnualizedReturn(beginning_net_worth_usd + gain, beginning_net_worth_usd,
                                  investment_days, numpy)
            ELSE Ok([kind |-> "float", base |-> <<1, 1>>, days |-> investment_days])
        max_drawdown == calculate_max_drawdown(trades_df, dividends_df,
                                               deposits_withdrawals_df,
                                               beginning_net_worth_usd,
                                               ending_net_worth_usd)
        summary ==
            ("Beginning_Net_Worth_USD" :> Round2(beginning_net_worth_usd * 1000))
            @@ ("Ending_Net_Worth_USD" :> Round2(ending_net_worth_usd * 1000))
            @@ ("Net_Deposits_USD" :> Round2(net_deposits_usd * 1000))
            @@ ("Total_Return_Percent" :> total_return)
            @@ ("Annualized_Return_Percent" :> annualized_return.val)
            @@ ("Max_Drawdown_Percent" :> PercentOf(max_drawdown[1], max_drawdown[2]))
            @@ ("Realized_ROI_Percent" :> RealizedRoi(trades_df))
            @@ ("Investment_Period_Days" :> investment_days)
        details ==
            ("Total_Positions" :> Len(usd_positions))
            @@ ("Total_Position_Value_USD" :> Round2(ending_positions_value_usd * 1000))
            @@ ("Total_Cost_Basis_USD"
                :> Round2(ColumnSum(usd_positions, "Cost_Basis") * 1000))
            @@ ("Total_Unrealized_P&L_USD"
                :> Round2(ColumnSum(usd_positions, "Unrealized_P&L") * 1000))
    IN  IF annualized_return.kind = "raise" THEN annualized_return
        ELSE Ok(With("Performance_Summary" :> summary, ~Empty(open_positions_df),
                     "Position_Details", details))

(***************************************************************************)
(* The performance specification: the tables and the cash report of a      *)
(* statement, and one call of calculate_performance.                       *)
(***************************************************************************)
\* a trade without tradeDate and dateTime has the empty Date
D_NONE == <<>>
D_APR == <<"2", "0", "2", "5", "0", "4", "0", "1">>
\* a date in another format
D_DASHED == <<"2", "0", "2", "5", "-", "0", "3", "-", "0", "5">>

PerformanceTradeRows ==
    SummaryTradeRows
    \cup {SummaryTrade(D_NONE, S_USD, 20, 0 - 1000),
          SummaryTrade(D_JAN, S_USD, 1000, 0),
          SummaryTrade(D_MAR, S_USD, 0 - 500, 0)}

PerformanceDividendTables ==
    {DataFrame(<<>>),
     DataFrame(<<SummaryAmount(D_DEC, S_USD, 53)>>),
     DataFrame(<<SummaryAmount(D_DASHED, S_USD, 9)>>)}

PerformanceDepositTables ==
    {DataFrame(<<>>),
     DataFrame(<<SummaryDeposit(D_DEC, 5000), SummaryDeposit(D_JAN, 0 - 1000)>>),
     DataFrame(<<SummaryDeposit(D_APR, 200)>>)}

PerformancePosition(currency, value, cost) ==
    ("Currency" :> currency) @@ ("Position_Value" :> value) @@ ("Cost_Basis" :> cost)
    @@ ("Unrealized_P&L" :> value - cost)

PositionTables ==
    {DataFrame(<<>>),
     DataFrame(<<PerformancePosition(S_USD, 1500, 1200),
                 PerformancePosition(S_EUR, 800, 900)>>)}

CashReport(starting_cash, ending_cash) ==
    ("Starting_Cash" :> starting_cash) @@ ("Ending_Cash" :> ending_cash)

CashReports ==
    {EmptyMapping, CashReport(0, 500), CashReport(1000, 1100), CashReport(3000, 3100),
     CashReport(1000, 0 - 200), CashReport(1000, 9000), CashReport(0 - 500, 300),
     CashReport(10000, 10500)}

PerformanceCalls ==
    [trades_df : FramesUpTo(MaxRows, PerformanceTradeRows),
     dividends_df : PerformanceDividendTables,
     deposits_withdrawals_df : PerformanceDepositTables,
     open_positions_df : PositionTables,
     cash_report : CashReports]

InitPerformance ==
    /\ ServiceIdle
    /\ call \in PerformanceCalls
    /\ rate = <<>>
    /\ flex_data = <<>>
    /\ fn = ""
    /\ out = NotCalled
    /\ FetchIdle
    /\ MainIdle

CalculatePerformance ==
    /\ fn = ""
    /\ fn' = "calculate_performance"
    /\ out' = calculate_performance(call.trades_df, call.dividends_df,
                                    call.deposits_withdrawals_df, call.open_positions_df,
                                    call.cash_report)
    /\ UNCHANGED <<serviceVars, calcVars, flex_data, fetchVars, mainVars>>

\* data_parser.py 703-709: _calculate_max_drawdown(trades_df, dividends_df,
\* deposits_withdrawals_df, beginning_net_worth_usd, ending_net_worth_usd)
CalculateMaxDrawdown ==
    /\ fn = ""
    /\ fn' = "_calculate_max_drawdown"
    /\ out' = Ok(calculate_max_drawdown(
                     call.trades_df, call.dividends_df, call.deposits_withdrawals_df,
                     CashOf(call.cash_report, "Starting_Cash"),
                     CashOf(call.cash_report, "Ending_Cash")
                     + ColumnSum(RowsWhere(call.open_positions_df.val, "Currency", S_USD),
                                 "Position_Value")))
    /\ UNCHANGED <<serviceVars, calcVars, flex_data, fetchVars, mainVars>>

NextPerformance == CalculatePerformance \/ CalculateMaxDrawdown

SpecPerformance == InitPerformance /\ [][NextPerformance]_vars

(***************************************************************************)
(* services/exchange_rate.py: ExchangeRateService.  Rates are in           *)
(* hundredths.  An API request is answered by a response the environment   *)
(* chooses; get_rate is one action.                                        *)
(***************************************************************************)
\* what requests.get(...) gives: status 0 stands for a raised exception
\* (no connection, timeout, a body that is not JSON), cny for
\* data["rates"]["CNY"] (PyNone: the key is missing)
Response(status, cny) == [status |-> status, cny |-> cny]

\* exchange_rate.py 106-132: raise_for_status() raises for 4xx and 5xx, and
\* every exception gives None
fetch_from_exchangerate_api(response) ==
    IF response.status = 0 \/ response.status >= 400 THEN PyNone
    ELSE response.cny

\* exchange_rate.py 134-159: a status other than 200 gives None
fetch_from_frankfurter(response) ==
    IF response.status = 200 THEN response.cny ELSE PyNone

\* `if rate:` (None and 0.0 are false)
Truthy(r) == r # PyNone /\ r.val # 0

\* exchange_rate.py 81-104: the APIs in order, the first rate that is true;
\* requests are the responses received on the way
MutFetchRatePrefersSecond(r1, r2) ==
    LET first == fetch_from_exchangerate_api(r1)
        second == fetch_from_frankfurter(r2)
    IN  IF Truthy(second) THEN [rate |-> second, requests |-> <<r1, r2>>]
        ELSE IF Truthy(first) THEN [rate |-> first, requests |-> <<r1>>]
        ELSE [rate |-> PyNone, requests |-> <<r1, r2>>]
fetch_rate_from_api(r1, r2) ==
    LET first == fetch_from_exchangerate_api(r1)
        second == fetch_from_frankfurter(r2)
    IN  IF Truthy(first) THEN [rate |-> first, requests |-> <<r1>>]
        ELSE IF Truthy(second) THEN [rate |-> second, requests |-> <<r1, r2>>]
        ELSE [rate |-> PyNone, requests |-> <<r1, r2>>]

\* exchange_rate.py 57-61: YYYYMMDD becomes YYYY-MM-DD, any other length is kept
MutNormalizedDateKept(date_str) == date_str
normalized_date(date_str) ==
    IF Len(date_str) = 8
    THEN SubSeq(date_str, 1, 4) \o <<"-">> \o SubSeq(date_str, 5, 6) \o <<"-">>
         \o SubSeq(date_str, 7, 8)
    ELSE date_str

\* the cache file after a failed write: open(..., "w") has emptied it
Unreadable == [kind |-> "unreadable"]
\* no cache file
Missing == [kind |-> "missing"]

\* exchange_rate.py 27-36
load_cache(file) ==
    IF file = Missing \/ file = Unreadable THEN <<>> ELSE file.val

\* exchange_rate.py 38-44: a failed write is reported and nothing is raised
save_cache(file, new_cache, written) ==
    IF written = "written" THEN PyDict(new_cache)
    ELSE IF written = "emptied" THEN Unreadable
    ELSE file

\* d[k] = v
SetItem(d, k, v) == (k :> v) @@ d

\* history: one more call counted for the date
Counted(count, d) ==
    SetItem(count, d, IF d \in DOMAIN count THEN count[d] + 1 ELSE 1)

(***************************************************************************)
(* The exchange rate specification: a service constructed over a cache     *)
(* file, and any sequence of get_rate calls.                               *)
(***************************************************************************)
D_JAN_DASHED == <<"2", "0", "2", "5", "-", "0", "1", "-", "1", "0">>

RateDates == {D_JAN, D_JAN_DASHED, D_MAR, D_DASHED}

\* the default_rate arguments
DefaultRates == {DEFAULT_RATE, 700}

Responses ==
    {Response(0, PyNone), Response(500, Float(731)), Response(200, PyNone),
     Response(200, Float(0)), Response(200, Float(715)), Response(200, Float(731))}

WriteOutcomes == {"written", "emptied", "refused"}

CacheFiles == {Missing, Unreadable, PyDict(<<>>), PyDict(D_JAN_DASHED :> 709)}

InitRates ==
    /\ ParseIdle
    /\ FetchIdle
    /\ MainIdle
    /\ CalcIdle
    /\ StopIdle
    /\ cache_file \in CacheFiles
    /\ cache = load_cache(cache_file)
    /\ fetched = <<>>
    /\ returned = <<>>

\* exchange_rate.py 46-79
GetRate ==
    \E date_str \in RateDates, default_rate \in DefaultRates :
        LET date == normalized_date(date_str)
        IN  /\ fn' = "get_rate"
            /\ IF date \in DOMAIN cache
               THEN /\ call' = [date_str |-> date_str, default_rate |-> default_rate,
                                requests |-> <<>>]
                    /\ out' = Ok(cache[date])
                    /\ UNCHANGED <<cache, cache_file, fetched>>
               ELSE \E r1 \in Responses, r2 \in Responses, written \in WriteOutcomes :
                        LET api == fetch_rate_from_api(r1, r2)
                            value == IF Truthy(api.rate) THEN api.rate.val
                                     ELSE default_rate
                        IN  /\ call' = [date_str |-> date_str,
                                        default_rate |-> default_rate,
                                        requests |-> api.requests]
                            /\ cache' = SetItem(cache, date, value)
                            /\ cache_file' = save_cache(cache_file, cache', written)
                            /\ fetched' = Counted(fetched, date)
                            /\ out' = Ok(value)
            /\ returned' = IF date \in DOMAIN returned THEN returned
                           ELSE SetItem(returned, date, out'.val)
            /\ UNCHANGED <<stopVars, rate, flex_data, fetchVars, mainVars>>

NextRates == GetRate

SpecRates == InitRates /\ [][NextRates]_vars

(***************************************************************************)
(* services/stop_loss.py (package ibkr_toolkit): StopLossManager and       *)
(* StopLossChecker.  Prices are in cents and the prices of the model are   *)
(* whole dollars, so that a stop price is a whole number of cents;         *)
(* trailing_percent is a whole percentage.  A timestamp is the number of   *)
(* calls made before it was taken.                                         *)
(***************************************************************************)
\* stop_loss.py 20-28
StopLossConfig(symbol, trailing_percent, peak_price, stop_price, last_updated) ==
    [symbol |-> symbol, trailing_percent |-> trailing_percent, peak_price |-> peak_price,
     stop_price |-> stop_price, last_updated |-> last_updated]

\* stop_loss.py 94, 102, 141: current_price * (1 - trailing_percent / 100)
StopPrice(current_price, trailing_percent) ==
    (current_price * (100 - trailing_percent)) \div 100

\* stop_loss.py 45-57: no file, or one that cannot be read back, gives {}
load_configs(file) ==
    IF file = Missing \/ file = Unreadable THEN <<>> ELSE file.val

\* stop_loss.py 59-68: a failed mkdir or write is logged and nothing is raised
save_configs(file, new_configs, written) ==
    IF written = "written" THEN PyDict(new_configs)
    ELSE IF written = "emptied" THEN Unreadable
    ELSE file

\* del d[k]
DelItem(d, k) == [x \in DOMAIN d \ {k} |-> d[x]]

\* stop_loss.py 84-115: the configs after set_trailing_stop, before the save
set_trailing_stop(cfgs, symbol, current_price, trailing_percent, t) ==
    IF symbol \in DOMAIN cfgs
    THEN LET config == cfgs[symbol]
         IN  IF current_price > config.peak_price
             THEN SetItem(cfgs, symbol,
                          StopLossConfig(symbol, trailing_percent, current_price,
                                         StopPrice(current_price, trailing_percent), t))
             ELSE SetItem(cfgs, symbol,
                          [config EXCEPT !.trailing_percent = trailing_percent])
    ELSE SetItem(cfgs, symbol,
                 StopLossConfig(symbol, trailing_percent, current_price,
                                StopPrice(current_price, trailing_percent), t))

\* stop_loss.py 149: triggered = current_price <= config.stop_price
MutTriggeredBelowOnly(current_price, stop_price) == current_price < stop_price
Triggered(current_price, stop_price) == current_price <= stop_price

\* stop_loss.py 132-150: the configs after the call, whether it saved them,
\* and the pair it returns
check_stop_loss_triggered(cfgs, symbol, current_price, t) ==
    IF symbol \notin DOMAIN cfgs
    THEN [configs |-> cfgs, saved |-> FALSE, result |-> <<FALSE, PyNone>>]
    ELSE LET config == cfgs[symbol]
             raised == current_price > config.peak_price
             after == IF raised
                      THEN StopLossConfig(symbol, config.trailing_percent, current_price,
                                          StopPrice(current_price, config.trailing_percent), t)
                      ELSE config
         IN  [configs |-> IF raised THEN SetItem(cfgs, symbol, after) ELSE cfgs,
              saved |-> raised,
              result |-> <<Triggered(current_price, after.stop_price), after.stop_price>>]

\* stop_loss.py 246-253: an order is placed for a triggered stop under auto_execute
MutPlacesOrderWhenTriggered(triggered, auto_execute) == triggered
PlacesOrder(triggered, auto_execute) == triggered /\ auto_execute

\* position.contract.symbol, position.position, position.averageCost
Position(symbol, position, averageCost) ==
    [symbol |-> symbol, position |-> position, averageCost |-> averageCost]

\* stop_loss.py 208-268: the loop of check_positions from the given
\* positions on.  st: the configs, the config file, the client calls, the
\* results and what was raised ("" for nothing); answers: what the client
\* and the file system answer during this call.
RECURSIVE CheckLoop(_, _, _, _, _, _)
CheckLoop(positions, auto_execute, default_trailing_percent, answers, t, st) ==
    IF positions = <<>> \/ st.raised # "" THEN st
    ELSE LET symbol == Head(positions).symbol
             quantity == Head(positions).position
             avg_cost == Head(positions).averageCost
             price == answers.price[symbol]
             current_price == price.val
             asked == Append(st.client_log, <<"get_market_price", symbol>>)
             known == symbol \in DOMAIN st.configs
             initialized == IF known THEN st.configs
                            ELSE set_trailing_stop(st.configs, symbol, current_price,
                                                   default_trailing_percent, t)
             checked == check_stop_loss_triggered(initialized, symbol, current_price, t)
             file == IF known /\ ~checked.saved THEN st.config_file
                     ELSE save_configs(st.config_file, checked.configs, answers.written)
             triggered == checked.result[1]
             stop_price == checked.result[2]
             ordered == PlacesOrder(triggered, auto_execute)
             result == [symbol |-> symbol, quantity |-> quantity,
                        current_price |-> current_price, stop_price |-> stop_price,
                        triggered |-> triggered,
                        action_taken |-> IF ~triggered THEN "None"
                                         ELSE IF ~auto_execute THEN "advised"
                                         ELSE IF answers.order = "placed" THEN "ordered"
                                         ELSE "order failed"]
         IN  IF quantity <= 0
             THEN CheckLoop(Tail(positions), auto_execute, default_trailing_percent,
                            answers, t, st)
             ELSE IF price.kind = "raise"
             THEN [st EXCEPT !.client_log = asked, !.raised = "APIError"]
             ELSE IF price = PyNone
             THEN CheckLoop(Tail(positions), auto_execute, default_trailing_percent,
                            answers, t, [st EXCEPT !.client_log = asked])
             ELSE IF avg_cost = 0
             THEN [st EXCEPT !.client_log = asked, !.configs = checked.configs,
                             !.config_file = file, !.raised = "ZeroDivisionError"]
             ELSE CheckLoop(Tail(positions), auto_execute, default_trailing_percent,
                            answers, t,
                            [st EXCEPT
                                !.client_log =
                                    IF ordered
                                    THEN Append(asked, <<"place_stop_loss_order", symbol,
                                                         quantity, stop_price>>)
                                    ELSE asked,
                                !.configs = checked.configs,
                                !.config_file = file,
                                !.results = Append(st.results, result)])

\* stop_loss.py 190-270
check_positions(cfgs, file, auto_execute, default_trailing_percent, answers, t) ==
    LET st == [configs |-> cfgs, config_file |-> file, client_log |-> <<>>,
               results |-> <<>>, raised |-> ""]
    IN  IF ~answers.connected
        THEN [st EXCEPT !.client_log = <<<<"is_connected">>>>, !.raised = "APIError"]
        ELSE IF answers.positions.kind = "raise"
        THEN [st EXCEPT !.client_log = <<<<"is_connected">>, <<"get_positions">>>>,
                        !.raised = "APIError"]
        ELSE CheckLoop(answers.positions.val, auto_execute, default_trailing_percent, answers, t,
                       [st EXCEPT !.client_log = <<<<"is_connected">>, <<"get_positions">>>>])

(***************************************************************************)
(* The stop-loss specification: a manager constructed over a config file,  *)
(* and any sequence of set_trailing_stop, check_stop_loss_triggered,       *)
(* remove_stop_loss and check_positions calls.                             *)
(***************************************************************************)
\* number of calls in a run
MaxCalls == 3
Symbols == {"AAPL", "MSFT"}

\* $95, $100, $110
Prices == {9500, 10000, 11000}

TrailingPercents == {5, 10}

ConfigFiles ==
    {Missing, Unreadable,
     PyDict("AAPL" :> StopLossConfig("AAPL", 5, 10000, 9500, 0))}

InitStopLoss ==
    /\ ParseIdle
    /\ FetchIdle
    /\ MainIdle
    /\ CalcIdle
    /\ RateIdle
    /\ config_file \in ConfigFiles
    /\ configs = load_configs(config_file)
    /\ now = 0
    /\ client_log = <<>>

\* stop_loss.py 70-117
SetTrailingStop ==
    \E symbol \in Symbols, current_price \in Prices, trailing_percent \in TrailingPercents,
       written \in WriteOutcomes :
        /\ now < MaxCalls
        /\ fn' = "set_trailing_stop"
        /\ call' = [symbol |-> symbol, current_price |-> current_price,
                    trailing_percent |-> trailing_percent, written |-> written]
        /\ configs' = set_trailing_stop(configs, symbol, current_price, trailing_percent, now)
        /\ config_file' = save_configs(config_file, configs', written)
        /\ out' = Ok(configs'[symbol])
        /\ now' = now + 1
        /\ UNCHANGED <<client_log, rateVars, rate, flex_data, fetchVars, mainVars>>

\* stop_loss.py 119-150
CheckStopLossTriggered ==
    \E symbol \in Symbols, current_price \in Prices, written \in WriteOutcomes :
        LET checked == check_stop_loss_triggered(configs, symbol, current_price, now)
        IN  /\ now < MaxCalls
            /\ fn' = "check_stop_loss_triggered"
            /\ call' = [symbol |-> symbol, current_price |-> current_price,
                        written |-> IF checked.saved THEN written ELSE "none"]
            /\ configs' = checked.configs
            /\ config_file' = IF checked.saved
                              THEN save_configs(config_file, configs', written)
                              ELSE config_file
            /\ out' = Ok(checked.result)
            /\ now' = now + 1
            /\ UNCHANGED <<client_log, rateVars, rate, flex_data, fetchVars, mainVars>>

\* stop_loss.py 152-162
RemoveStopLoss ==
    \E symbol \in Symbols, written \in WriteOutcomes :
        /\ now < MaxCalls
        /\ fn' = "remove_stop_loss"
        /\ call' = [symbol |-> symbol,
                    written |-> IF symbol \in DOMAIN configs THEN written ELSE "none"]
        /\ configs' = IF symbol \in DOMAIN configs THEN DelItem(configs, symbol) ELSE configs
        /\ config_file' = IF symbol \in DOMAIN configs
                          THEN save_configs(config_file, configs', written)
                          ELSE config_file
        /\ out' = Ok(PyNone)
        /\ now' = now + 1
        /\ UNCHANGED <<client_log, rateVars, rate, flex_data, fetchVars, mainVars>>

NextStopLoss ==
    \/ SetTrailingStop
    \/ CheckStopLossTriggered
    \/ RemoveStopLoss

SpecStopLoss == InitStopLoss /\ [][NextStopLoss]_vars

(***************************************************************************)
(* The checker specification: a checker over a manager and a trading       *)
(* client, and one check_positions call.                                   *)
(***************************************************************************)
\* largest number of positions the client reports
MaxPositions == 2

\* StopLossChecker's default_trailing_percent
DEFAULT_TRAILING_PERCENT == 5

\* quantity 0 and a short position; an average cost of 0
PositionChoices ==
    {Position("AAPL", 10, 9000), Position("AAPL", 0, 9000),
     Position("MSFT", 0 - 5, 9000), Position("MSFT", 10, 0),
     Position("MSFT", 3, 10000)}

\* get_positions: the positions, or APIError
PositionAnswers ==
    {Raise("APIError")}
        \cup {Ok(positions) : positions \in UNION {[1..n -> PositionChoices] :
                                                       n \in 0..MaxPositions}}

\* get_market_price: a price, None, or APIError
PriceAnswers ==
    {("AAPL" :> a) @@ ("MSFT" :> m) :
        a \in {PyNone, Raise("APIError"), Float(9500), Float(11000)},
        m \in {PyNone, Float(9500)}}

\* what the client and the file system answer during a call; a client that
\* is not connected is asked nothing else
ClientAnswers ==
    {[connected |-> TRUE, positions |-> positions, price |-> price, order |-> order,
      written |-> written] :
        positions \in PositionAnswers, price \in PriceAnswers,
        order \in {"placed", "error"}, written \in {"written", "refused"}}
    \cup
    {[connected |-> FALSE, positions |-> positions, price |-> price, order |-> "placed",
      written |-> "written"] :
        positions \in {Ok(<<Position("AAPL", 10, 9000)>>)},
        price \in {("AAPL" :> Float(9500)) @@ ("MSFT" :> Float(9500))}}

CheckerConfigFiles ==
    ConfigFiles
        \cup {PyDict(("AAPL" :> StopLossConfig("AAPL", 5, 10000, 9500, 0))
                      @@ ("MSFT" :> StopLossConfig("MSFT", 10, 11000, 9900, 0)))}

InitChecker ==
    /\ ParseIdle
    /\ FetchIdle
    /\ MainIdle
    /\ RateIdle
    /\ rate = <<>>
    /\ call \in [auto_execute : BOOLEAN, answers : ClientAnswers]
    /\ config_file \in CheckerConfigFiles
    /\ configs = load_configs(config_file)
    /\ now = 1
    /\ client_log = <<>>

\* stop_loss.py 190-270
CheckPositions ==
    LET st == check_positions(configs, config_file, call.auto_execute,
                              DEFAULT_TRAILING_PERCENT, call.answers, now)
    IN  /\ fn = "idle"
        /\ fn' = "check_positions"
        /\ configs' = st.configs
        /\ config_file' = st.config_file
        /\ client_log' = st.client_log
        /\ out' = IF st.raised # "" THEN Raise(st.raised) ELSE Ok(st.results)
        /\ now' = now + 1
        /\ UNCHANGED <<call, rateVars, rate, flex_data, fetchVars, mainVars>>

NextChecker == CheckPositions

SpecChecker == InitChecker /\ [][NextChecker]_vars

(***************************************************************************)
(* api/flex_query.py: FlexQueryClient.  One action per way an attempt can  *)
(* go; each appends the network call it made, and the sleep that follows   *)
(* it, to log.                                                             *)
(***************************************************************************)
ReferenceCodes == {"REF1", "REF2"}

\* the ErrorMessage texts of a "Fail" response; ABSENT: no ErrorMessage
FailMessages ==
    {NOT_READY_TEXT, MSG_NOT_READY_LONG, MSG_TOKEN_EXPIRED, MSG_LOWER_CASE, <<>>, ABSENT}

\* flex_query.py 153: result["FlexStatementResponse"].get("ErrorMessage", "")
ErrorText(message) == IF message = ABSENT THEN <<>> ELSE message

\* IsNotReady matching the text whatever its case
MutIsNotReadyAnyCase(message) ==
    StrContains(StrUpper(ErrorText(message)), StrUpper(NOT_READY_TEXT))

\* flex_query.py 154
IsNotReady(message) == StrContains(ErrorText(message), NOT_READY_TEXT)

\* BackoffDelay without the backoff
MutBackoffDelayFlat(i) == RETRY_DELAY

\* flex_query.py 130
BackoffDelay(i) == RETRY_DELAY * Pow(RETRY_BACKOFF, i)

\* NotReadyDelay using the backoff delay of the attempt
MutNotReadyDelayBackoff(i) == RETRY_DELAY * Pow(RETRY_BACKOFF, i)

\* flex_query.py 156: the delay slept after a "not yet ready" answer
NotReadyDelay(i) == RETRY_DELAY

\* flex_query.py 129: is a network failure on attempt i retried
RetryNetworkError(i, n) == i < n - 1

Get(url, params) == [op |-> "get", url |-> url, params |-> params]
Sleep(delay) == [op |-> "sleep", delay |-> delay]

\* flex_query.py 61-71: t and q are fixed; fd and td only when given
RequestParams(fd, td) ==
    [k \in {x \in {"fd", "td"} : IF x = "fd" THEN ~Falsy(fd) ELSE ~Falsy(td)} |->
        IF k = "fd" THEN fd.val ELSE td.val]

\* PollParams sending the query id instead of the reference code
MutPollParamsQueryId(code) == [q |-> "QUERY_ID"]

\* flex_query.py 118
PollParams(code) == [q |-> code]

\* the call returns or raises: control is back at the caller
Finish(result) ==
    /\ outcome' = result
    /\ pc' = "finished"

\* ---- request_report (flex_query.py 46-99)
RequestNetworkError ==
    /\ pc = "request_report"
    /\ log' = Append(log, Get("SendRequest", RequestParams(from_date, to_date)))
    /\ Finish(APIError("Failed to request report: {}", "RequestException"))
    /\ UNCHANGED <<serviceVars, calcVars, parseVars, mainVars, entry,
                   from_date, to_date, req_year, reference_code, max_retries,
                   attempt, resps>>

RequestBadXml ==
    /\ pc = "request_report"
    /\ log' = Append(log, Get("SendRequest", RequestParams(from_date, to_date)))
    /\ Finish(APIError("Failed to parse XML response: {}", "ExpatError"))
    /\ UNCHANGED <<serviceVars, calcVars, parseVars, mainVars, entry,
                   from_date, to_date, req_year, reference_code, max_retries,
                   attempt, resps>>

RequestSuccess ==
    /\ pc = "request_report"
    /\ \E code \in ReferenceCodes : reference_code' = code
    /\ log' = Append(log, Get("SendRequest", RequestParams(from_date, to_date)))
    /\ pc' = "warmup"
    /\ UNCHANGED <<serviceVars, calcVars, parseVars, mainVars, entry,
                   from_date, to_date, req_year, max_retries, attempt, resps,
                   outcome>>

\* any Status other than "Success"; .get("ErrorMessage", "Unknown error")
RequestRejected ==
    /\ pc = "request_report"
    /\ log' = Append(log, Get("SendRequest", RequestParams(from_date, to_date)))
    /\ \E message \in {MSG_TOKEN_EXPIRED, ABSENT} :
           Finish(APIError("Request failed: {}",
                           IF message = ABSENT THEN "Unknown error" ELSE message))
    /\ UNCHANGED <<serviceVars, calcVars, parseVars, mainVars, entry,
                   from_date, to_date, req_year, reference_code, max_retries,
                   attempt, resps>>

\* ---- fetch_data (flex_query.py 184-187)
FetchDataWarmUp ==
    /\ pc = "warmup"
    /\ log' = Append(log, Sleep(WARMUP_DELAY))
    /\ max_retries' = MAX_RETRIES
    /\ attempt' = 0
    /\ resps' = <<>>
    /\ pc' = "get_report"
    /\ UNCHANGED <<serviceVars, calcVars, parseVars, mainVars, entry,
                   from_date, to_date, req_year, reference_code, outcome>>

\* ---- get_report (flex_query.py 101-168)
\* LoopCondition running one attempt too many
MutLoopConditionOffByOne(i, n) == i <= n

\* 123: for attempt in range(max_retries)
LoopCondition(i, n) == i < n

InLoop == pc = "get_report" /\ LoopCondition(attempt, max_retries)

\* a response as get_report saw it
Resp(kind) == [kind |-> kind]
FailResp(kind, message) == [kind |-> kind, message |-> message]

PollCall == Get("GetStatement", PollParams(reference_code))

\* 127-134: requests.RequestException
PollNetworkError ==
    /\ InLoop
    /\ resps' = Append(resps, Resp("network_error"))
    /\ IF RetryNetworkError(attempt, max_retries)
       THEN /\ log' = log \o <<PollCall, Sleep(BackoffDelay(attempt))>>
            /\ attempt' = attempt + 1
            /\ UNCHANGED <<pc, outcome>>
       ELSE /\ log' = Append(log, PollCall)
            /\ Finish(APIError("Failed to retrieve report after {} attempts", max_retries))
            /\ UNCHANGED attempt
    /\ UNCHANGED <<serviceVars, calcVars, parseVars, mainVars, entry,
                   from_date, to_date, req_year, reference_code, max_retries>>

\* 136-140: the body is not XML
PollBadXml ==
    /\ InLoop
    /\ resps' = Append(resps, Resp("bad_xml"))
    /\ log' = Append(log, PollCall)
    /\ Finish(APIError("Failed to parse XML response: {}", "ExpatError"))
    /\ UNCHANGED <<serviceVars, calcVars, parseVars, mainVars, entry,
                   from_date, to_date, req_year, reference_code, max_retries,
                   attempt>>

\* 142-151: FlexStatementResponse, Status "Success"
PollSuccess ==
    /\ InLoop
    /\ resps' = Append(resps, Resp("success"))
    /\ log' = Append(log, PollCall)
    /\ \E flex_statement \in ServerStatements(req_year) : Finish(Ok(flex_statement))
    /\ UNCHANGED <<serviceVars, calcVars, parseVars, mainVars, entry,
                   from_date, to_date, req_year, reference_code, max_retries,
                   attempt>>

\* 152-157: Status "Fail", "Statement is not yet ready" in the message
PollNotReady ==
    /\ InLoop
    /\ \E message \in FailMessages :
           /\ IsNotReady(message)
           /\ resps' = Append(resps, FailResp("not_ready", message))
    /\ log' = log \o <<PollCall, Sleep(NotReadyDelay(attempt))>>
    /\ attempt' = attempt + 1
    /\ UNCHANGED <<serviceVars, calcVars, parseVars, mainVars, entry,
                   from_date, to_date, req_year, reference_code, max_retries,
                   pc, outcome>>

\* 158-160: Status "Fail" with any other message
PollFailOther ==
    /\ InLoop
    /\ log' = Append(log, PollCall)
    /\ \E message \in FailMessages :
           /\ ~IsNotReady(message)
           /\ resps' = Append(resps, FailResp("fail_other", message))
           /\ Finish(APIError("Retrieval failed: {}", ErrorText(message)))
    /\ UNCHANGED <<serviceVars, calcVars, parseVars, mainVars, entry,
                   from_date, to_date, req_year, reference_code, max_retries,
                   attempt>>

\* 142-160, no branch taken: a Status that is neither "Success" nor "Fail";
\* or neither envelope (161 not taken): the loop goes on without a sleep
PollUnrecognized ==
    /\ InLoop
    /\ resps' = Append(resps, Resp("unrecognized"))
    /\ log' = Append(log, PollCall)
    /\ attempt' = attempt + 1
    /\ UNCHANGED <<serviceVars, calcVars, parseVars, mainVars, entry,
                   from_date, to_date, req_year, reference_code, max_retries,
                   pc, outcome>>

\* 161-166: the FlexQueryResponse envelope
PollQueryResponse ==
    /\ InLoop
    /\ resps' = Append(resps, Resp("query_response"))
    /\ log' = Append(log, PollCall)
    /\ \E flex_statement \in ServerStatements(req_year) : Finish(Ok(flex_statement))
    /\ UNCHANGED <<serviceVars, calcVars, parseVars, mainVars, entry,
                   from_date, to_date, req_year, reference_code, max_retries,
                   attempt>>

\* 168: the loop ran out
PollExhausted ==
    /\ pc = "get_report"
    /\ ~LoopCondition(attempt, max_retries)
    /\ Finish(APIError("Report retrieval timeout after {} attempts", max_retries))
    /\ UNCHANGED <<serviceVars, calcVars, parseVars, mainVars, entry,
                   from_date, to_date, req_year, reference_code, max_retries,
                   attempt, log, resps>>

(***************************************************************************)
(* cli.py: main, from the validation of the options to the parsed tables.  *)
(***************************************************************************)
\* datetime.now().year
CurrentYear == BaseYear + MaxYears - 1

Years == BaseYear..CurrentYear

\* the command lines of the model: no option, --year, --from-year (also a
\* year after the current one), --all with or without FIRST_TRADE_YEAR, and
\* two options at once
ArgSets ==
    {NoArgs}
        \cup {[NoArgs EXCEPT !.year = y] : y \in Years}
        \cup {[NoArgs EXCEPT !.from_year = y] : y \in BaseYear..(CurrentYear + 1)}
        \cup {[NoArgs EXCEPT !.all = TRUE, !.first_trade_year = y] : y \in {0} \cup Years}
        \cup {[NoArgs EXCEPT !.year = BaseYear, !.from_year = BaseYear]}

\* list(range(a, b + 1))
RangeList(a, b) == [i \in 1..(IF b >= a THEN b - a + 1 ELSE 0) |-> a + i - 1]

\* cli.py 590: sum([bool(args.year), bool(args.from_year), args.all]) > 1
OptionsConflict(a) ==
    (IF a.year # 0 THEN 1 ELSE 0) + (IF a.from_year # 0 THEN 1 ELSE 0)
        + (IF a.all THEN 1 ELSE 0) > 1

\* f"{year}0101", f"{year}1231"
YearFrom(year) == PyStr(StrOfNat(year) \o S_0101)
YearTo(year) == PyStr(StrOfNat(year) \o S_1231)

\* cli.py 604-628: years_to_fetch
YearsToFetch(a) ==
    IF a.year # 0 THEN <<a.year>>
    ELSE IF a.from_year # 0 \/ a.all
    THEN RangeList(IF a.all THEN a.first_trade_year ELSE a.from_year, CurrentYear)
    ELSE <<>>

\* cli.py 662
MultiYear == Len(years_to_fetch) > 1

\* sys.exit(code)
Exit(code) ==
    /\ exit_code' = code
    /\ pc' = "exited"

\* the call client.fetch_data(from_date=fd, to_date=td)
CallFetchData(fd, td, year) ==
    /\ from_date' = fd
    /\ to_date' = td
    /\ req_year' = year
    /\ fetch_calls' = Append(fetch_calls, <<fd, td>>)
    /\ pc' = "request_report"

\* back in main after fetch_data returned or raised: the call's own state
\* (arguments, locals, its record of calls and sleeps) is gone
ForgetCall ==
    /\ from_date' = PyNone
    /\ to_date' = PyNone
    /\ req_year' = 0
    /\ reference_code' = ""
    /\ attempt' = 0
    /\ log' = <<>>
    /\ resps' = <<>>
    /\ outcome' = NotCalled

\* cli.py 589-631
MainStart ==
    /\ pc = "main_start"
    /\ IF OptionsConflict(args) \/ (args.year = 0 /\ args.all /\ args.first_trade_year = 0)
       THEN Exit(1) /\ UNCHANGED years_to_fetch
       ELSE /\ years_to_fetch' = YearsToFetch(args)
            /\ pc' = "main_fetch"
            /\ UNCHANGED exit_code
    /\ UNCHANGED <<serviceVars, calcVars, parseVars, entry, from_date, to_date,
                   req_year, reference_code, max_retries, attempt, log, resps,
                   outcome, args, yi, all_data, fetched_years, fetch_calls,
                   data, tables>>

\* cli.py 667-673: the next year of the multi-year loop
MainFetchYear ==
    /\ pc = "main_fetch"
    /\ MultiYear
    /\ yi < Len(years_to_fetch)
    /\ LET year == years_to_fetch[yi + 1]
       IN  CallFetchData(YearFrom(year), YearTo(year), year)
    /\ UNCHANGED <<serviceVars, calcVars, parseVars, entry, reference_code,
                   max_retries, attempt, log, resps, outcome, args,
                   years_to_fetch, yi, all_data, fetched_years, data, tables,
                   exit_code>>

\* cli.py 674-675
MainYearFetched ==
    /\ entry = "main"
    /\ pc = "finished"
    /\ MultiYear
    /\ outcome.kind = "ok"
    /\ all_data' = Append(all_data, outcome.val)
    /\ fetched_years' = Append(fetched_years, years_to_fetch[yi + 1])
    /\ yi' = yi + 1
    /\ pc' = "main_fetch"
    /\ ForgetCall
    /\ UNCHANGED <<serviceVars, calcVars, parseVars, entry, max_retries, args,
                   years_to_fetch, fetch_calls, data, tables, exit_code>>

\* cli.py 676-678: except APIError: log and go on
MainYearFailed ==
    /\ entry = "main"
    /\ pc = "finished"
    /\ MultiYear
    /\ outcome.kind = "raise"
    /\ yi' = yi + 1
    /\ pc' = "main_fetch"
    /\ ForgetCall
    /\ UNCHANGED <<serviceVars, calcVars, parseVars, entry, max_retries, args,
                   years_to_fetch, all_data, fetched_years, fetch_calls, data,
                   tables, exit_code>>

\* cli.py 680-682
MainNoData ==
    /\ pc = "main_fetch"
    /\ MultiYear
    /\ yi = Len(years_to_fetch)
    /\ all_data = <<>>
    /\ Exit(1)
    /\ UNCHANGED <<serviceVars, calcVars, parseVars, entry, from_date, to_date,
                   req_year, reference_code, max_retries, attempt, log, resps,
                   outcome, args, years_to_fetch, yi, all_data, fetched_years,
                   fetch_calls, data, tables>>

\* cli.py 688-694: what the years' results are combined into
Combined(years_data) ==
    IF years_data[1].kind = "list" THEN years_data[1] ELSE PyList(years_data)

\* cli.py 684-694
MainCombine ==
    /\ pc = "main_fetch"
    /\ MultiYear
    /\ yi = Len(years_to_fetch)
    /\ all_data # <<>>
    /\ data' = Combined(all_data)
    /\ pc' = "main_parse"
    /\ UNCHANGED <<serviceVars, calcVars, parseVars, entry, from_date, to_date,
                   req_year, reference_code, max_retries, attempt, log, resps,
                   outcome, args, years_to_fetch, yi, all_data, fetched_years,
                   fetch_calls, tables, exit_code>>

\* cli.py 600-601, 606-607: main's own from_date / to_date
MainFromDate(a) == IF a.year # 0 THEN YearFrom(a.year) ELSE PyNone
MainToDate(a) == IF a.year # 0 THEN YearTo(a.year) ELSE PyNone

\* cli.py 697-698: single year or default mode
MainFetchSingle ==
    /\ pc = "main_fetch"
    /\ ~MultiYear
    /\ CallFetchData(MainFromDate(args), MainToDate(args), args.year)
    /\ UNCHANGED <<serviceVars, calcVars, parseVars, entry, reference_code,
                   max_retries, attempt, log, resps, outcome, args,
                   years_to_fetch, yi, all_data, fetched_years, data, tables,
                   exit_code>>

\* cli.py 698-699
MainSingleFetched ==
    /\ entry = "main"
    /\ pc = "finished"
    /\ ~MultiYear
    /\ outcome.kind = "ok"
    /\ data' = outcome.val
    /\ pc' = "main_parse"
    /\ ForgetCall
    /\ UNCHANGED <<serviceVars, calcVars, parseVars, entry, max_retries, args,
                   years_to_fetch, yi, all_data, fetched_years, fetch_calls,
                   tables, exit_code>>

\* cli.py 700-702
MainSingleFailed ==
    /\ entry = "main"
    /\ pc = "finished"
    /\ ~MultiYear
    /\ outcome.kind = "raise"
    /\ Exit(1)
    /\ ForgetCall
    /\ UNCHANGED <<serviceVars, calcVars, parseVars, entry, max_retries, args,
                   years_to_fetch, yi, all_data, fetched_years, fetch_calls,
                   data, tables>>

RECURSIVE YearsFrom(_, _)
\* cli.py 726-746: process_accounts per year and the concatenation of the
\* non-empty tables
YearsFrom(years_data, i) ==
    IF i > Len(years_data) THEN Ok(NoTables)
    ELSE LET one == process_accounts(years_data[i])
             rest == YearsFrom(years_data, i + 1)
         IN  IF one.kind = "raise" THEN one
             ELSE IF rest.kind = "raise" THEN rest
             ELSE Ok(Concat4(one.val, rest.val))

\* cli.py 714-756: step 4
ParseStep(multi, d) ==
    IF multi /\ d.kind = "list" /\ d.val[1].kind # "dict"
    THEN YearsFrom(d.val, 1)
    ELSE process_accounts(d)

\* cli.py 712-756, and 811-815 when a parse call raises
MainParse ==
    /\ pc = "main_parse"
    /\ LET parsed == ParseStep(MultiYear, data)
       IN  IF parsed.kind = "raise"
           THEN Exit(1) /\ UNCHANGED tables
           ELSE /\ tables' = parsed.val
                /\ pc' = "main_parsed"
                /\ UNCHANGED exit_code
    /\ UNCHANGED <<serviceVars, calcVars, parseVars, entry, from_date, to_date,
                   req_year, reference_code, max_retries, attempt, log, resps,
                   outcome, args, years_to_fetch, yi, all_data, fetched_years,
                   fetch_calls, data>>

(***************************************************************************)
(* The fetch specification: a direct get_report call, a direct fetch_data  *)
(* call, or a run of main.                                                 *)
(***************************************************************************)
InitGetReport ==
    /\ entry = "get_report"
    /\ pc = "get_report"
    /\ from_date = PyNone
    /\ to_date = PyNone
    /\ req_year = 0
    /\ reference_code \in ReferenceCodes
    /\ max_retries \in 0..MaxRetriesArg
    /\ attempt = 0
    /\ log = <<>>
    /\ resps = <<>>
    /\ outcome = NotCalled
    /\ args = NoArgs

InitFetchData ==
    /\ entry = "fetch_data"
    /\ pc = "request_report"
    /\ from_date \in {PyNone, YearFrom(BaseYear)}
    /\ to_date \in {PyNone, YearTo(BaseYear)}
    /\ req_year = (IF from_date = PyNone /\ to_date = PyNone THEN 0 ELSE BaseYear)
    /\ reference_code = ""
    /\ max_retries = MAX_RETRIES
    /\ attempt = 0
    /\ log = <<>>
    /\ resps = <<>>
    /\ outcome = NotCalled
    /\ args = NoArgs

InitMain ==
    /\ entry = "main"
    /\ pc = "main_start"
    /\ from_date = PyNone
    /\ to_date = PyNone
    /\ req_year = 0
    /\ reference_code = ""
    /\ max_retries = MAX_RETRIES
    /\ attempt = 0
    /\ log = <<>>
    /\ resps = <<>>
    /\ outcome = NotCalled
    /\ args \in ArgSets

Init ==
    /\ ServiceIdle
    /\ ParseIdle
    /\ CalcIdle
    /\ InitGetReport \/ InitFetchData \/ InitMain
    /\ years_to_fetch = <<>>
    /\ yi = 0
    /\ all_data = <<>>
    /\ fetched_years = <<>>
    /\ fetch_calls = <<>>
    /\ data = PyNone
    /\ tables = NoTables
    /\ exit_code = 0 - 1

Next ==
    \/ RequestNetworkError
    \/ RequestBadXml
    \/ RequestSuccess
    \/ RequestRejected
    \/ FetchDataWarmUp
    \/ PollNetworkError
    \/ PollBadXml
    \/ PollSuccess
    \/ PollNotReady
    \/ PollFailOther
    \/ PollUnrecognized
    \/ PollQueryResponse
    \/ PollExhausted
    \/ MainStart
    \/ MainFetchYear
    \/ MainYearFetched
    \/ MainYearFailed
    \/ MainNoData
    \/ MainCombine
    \/ MainFetchSingle
    \/ MainSingleFetched
    \/ MainSingleFailed
    \/ MainParse

Spec == Init /\ [][Next]_vars

(***************************************************************************)
(* The get_report specification: one direct get_report call.  Every        *)
(* attempt ends: requests.get is called with timeout=30 and either returns *)
(* a response or raises RequestException, and each sleep is finite, so a   *)
(* call that can take a step takes one.                                    *)
(***************************************************************************)
InitGetReportCall ==
    /\ ServiceIdle
    /\ ParseIdle
    /\ CalcIdle
    /\ MainIdle
    /\ InitGetReport

NextGetReport ==
    \/ PollNetworkError
    \/ PollBadXml
    \/ PollSuccess
    \/ PollNotReady
    \/ PollFailOther
    \/ PollUnrecognized
    \/ PollQueryResponse
    \/ PollExhausted

SpecGetReport == InitGetReportCall /\ [][NextGetReport]_vars /\ WF_vars(NextGetReport)

(***************************************************************************)
(* Properties of the parsers (checked under SpecParse).                    *)
(***************************************************************************)
\* the call fn(doc)
Apply(f, doc) ==
    CASE f = "parse_trades" -> parse_trades(doc)
      [] f = "parse_dividends" -> parse_dividends(doc)
      [] f = "parse_withholding_tax" -> parse_withholding_tax(doc)
      [] f = "parse_deposits_withdrawals" -> parse_deposits_withdrawals(doc)
      [] f = "parse_open_positions" -> parse_open_positions(doc)
      [] f = "parse_cash_report" -> parse_cash_report(doc)

\* the sub-collection key of each section
SubKey(section) ==
    CASE section = "Trades" -> "Lot"
      [] section = "CashTransactions" -> "CashTransaction"
      [] section = "WithholdingTax" -> "Tax"
      [] section = "OpenPositions" -> "OpenPosition"
      [] section = "CashReport" -> "CashReportCurrency"

\* the sections a parse function reads
SectionsOf(f) ==
    CASE f = "parse_trades" -> {"Trades"}
      [] f = "parse_dividends" -> {"CashTransactions"}
      [] f = "parse_withholding_tax" -> {"WithholdingTax", "CashTransactions"}
      [] f = "parse_deposits_withdrawals" -> {"CashTransactions"}
      [] f = "parse_open_positions" -> {"OpenPositions"}
      [] f = "parse_cash_report" -> {"CashReport"}

\* the section is absent, null, or its sub-collection is absent, null or empty
NoRecords(doc, section) ==
    \/ section \notin DOMAIN doc
    \/ doc[section].kind = "None"
    \/ /\ doc[section].kind = "dict"
       /\ \/ SubKey(section) \notin DOMAIN doc[section].val
          \/ doc[section].val[SubKey(section)].kind = "None"
          \/ doc[section].val[SubKey(section)] = PyList(<<>>)

\* the sub-collection of the section is a bare mapping
IsBare(doc, section) ==
    /\ section \in DOMAIN doc
    /\ doc[section].kind = "dict"
    /\ SubKey(section) \in DOMAIN doc[section].val
    /\ doc[section].val[SubKey(section)].kind = "dict"

\* the document with every bare sub-collection wrapped in a one-element list
WrapBare(doc) ==
    [s \in DOMAIN doc |->
        IF s \in {"Trades", "CashTransactions", "WithholdingTax", "OpenPositions",
                  "CashReport"} /\ IsBare(doc, s)
        THEN PyDict([k \in DOMAIN doc[s].val |->
                        IF k = SubKey(s) THEN PyList(<<doc[s].val[k].val>>)
                        ELSE doc[s].val[k]])
        ELSE doc[s]]

\* C8 (as claimed): no parse function raises, and a document without records
\* for a function (every section it reads absent, null, or with an absent,
\* null or empty sub-collection) gives the empty table or mapping.
C8_ParseDegradesNeverRaises ==
    fn # "" =>
        /\ out.kind = "ok"
        /\ (\A s \in SectionsOf(fn) : NoRecords(flex_data, s)) => out.val = <<>>

\* C9: a bare singleton mapping parses to the same result as the mapping
\* wrapped in a one-element list, and that result is one row for the
\* functions that keep every element (trades, dedicated tax section, open
\* positions), at most one row for the filtering ones, and a non-empty
\* mapping for the cash report.
C9_BareEqualsOneElementList ==
    (fn # "" /\ \E s \in SectionsOf(fn) : IsBare(flex_data, s)) =>
        /\ out = Apply(fn, WrapBare(flex_data))
        /\ (fn \in {"parse_trades", "parse_open_positions"}
                => out.kind = "ok" /\ Len(out.val) = 1)
        /\ (fn = "parse_withholding_tax" /\ IsBare(flex_data, "WithholdingTax")
                => out.kind = "ok" /\ Len(out.val) = 1)
        /\ (fn \in {"parse_dividends", "parse_deposits_withdrawals"}
                => out.kind = "ok" /\ Len(out.val) <= 1)
        /\ (fn = "parse_cash_report" => out.kind = "ok" /\ DOMAIN out.val # {})

\* a bare closed lot has been parsed into one row
C9_Witness ==
    /\ fn = "parse_trades"
    /\ IsBare(flex_data, "Trades")
    /\ out.kind = "ok"
    /\ Len(out.val) = 1
    /\ out.val[1]["Symbol"] = S_AAPL

ItemsOf(doc, section) ==
    IF NoRecords(doc, section) THEN <<>>
    ELSE LET v == doc[section].val[SubKey(section)]
         IN  IF v.kind = "dict" THEN <<v.val>> ELSE v.val

\* the type contains "Withholding" or, whatever its case, "TAX"
TypeIsWithholding(txn) ==
    LET type == IF "@type" \in DOMAIN txn THEN txn["@type"] ELSE <<>>
    IN  StrContains(type, <<"W", "i", "t", "h", "h", "o", "l", "d", "i", "n", "g">>)
            \/ StrContains(StrUpper(type), <<"T", "A", "X">>)

\* what the precedence rule gives for a document: the rows of the dedicated
\* section when it has any, else the rows of the matching cash transactions
PrecedenceRows(doc) ==
    IF ItemsOf(doc, "WithholdingTax") # <<>>
    THEN [i \in 1..Len(ItemsOf(doc, "WithholdingTax")) |->
             TaxRow(ItemsOf(doc, "WithholdingTax")[i])]
    ELSE LET kept == SelectSeq(ItemsOf(doc, "CashTransactions"), TypeIsWithholding)
         IN  [i \in 1..Len(kept) |-> TaxFallbackRow(kept[i])]

\* C11 (as claimed): parse_withholding_tax returns exactly the rows of the
\* dedicated WithholdingTax/Tax section when that section is present and
\* non-empty, and otherwise exactly the rows of the cash transactions whose
\* type contains "Withholding" or, case-insensitively, "TAX" (none: empty).
C11_StrictPrecedence ==
    fn = "parse_withholding_tax" => out = Ok(PrecedenceRows(flex_data))

\* the precedence rule holds for every call that returns
C11_PrecedenceWhenReturning ==
    (fn = "parse_withholding_tax" /\ out.kind = "ok")
        => out.val = PrecedenceRows(flex_data)

\* parse_withholding_tax raises only on a null dedicated section, or, in the
\* fallback, on a null cash-transaction sub-collection
C11_RaisesOnlyOnNull ==
    (fn = "parse_withholding_tax" /\ out.kind = "raise")
        => \/ /\ "WithholdingTax" \in DOMAIN flex_data
              /\ flex_data["WithholdingTax"].kind = "None"
           \/ /\ ItemsOf(flex_data, "WithholdingTax") = <<>>
              /\ "CashTransactions" \in DOMAIN flex_data
              /\ flex_data["CashTransactions"].kind = "dict"
              /\ "CashTransaction" \in DOMAIN flex_data["CashTransactions"].val
              /\ flex_data["CashTransactions"].val["CashTransaction"].kind = "None"

\* the type is exactly "Deposits/Withdrawals"
TypeIsDepositWithdrawal(txn) ==
    /\ "@type" \in DOMAIN txn
    /\ txn["@type"] = <<"D", "e", "p", "o", "s", "i", "t", "s", "/",
                        "W", "i", "t", "h", "d", "r", "a", "w", "a", "l", "s">>

\* amount x fxRateToBase of a cash transaction: a missing, empty or
\* non-numeric amount is 0, such an fx rate is 1
AmountInBase(txn) ==
    safe_float(AttrGet(txn, "@amount"), 0) * safe_float(AttrGet(txn, "@fxRateToBase"), 1)

\* C12: parse_deposits_withdrawals emits one row, in order, for each cash
\* transaction whose type is exactly "Deposits/Withdrawals" and for no other;
\* the row's Transaction_Type is "Deposit" when amount x fxRateToBase > 0 and
\* "Withdrawal" otherwise.
C12_DepositClassification ==
    fn = "parse_deposits_withdrawals" =>
        LET kept == SelectSeq(ItemsOf(flex_data, "CashTransactions"),
                              TypeIsDepositWithdrawal)
        IN  /\ out.kind = "ok"
            /\ Len(out.val) = Len(kept)
            /\ \A i \in 1..Len(kept) :
                   /\ out.val[i]["Description"] = AttrStr(kept[i], "@description", <<>>)
                   /\ out.val[i]["Amount"] = safe_float(AttrGet(kept[i], "@amount"), 0)
                   /\ out.val[i]["Amount_Base_Currency"] = AmountInBase(kept[i])
                   /\ (out.val[i]["Transaction_Type"] = "Deposit")
                          <=> (AmountInBase(kept[i]) > 0)
                   /\ (out.val[i]["Transaction_Type"] = "Withdrawal")
                          <=> ~(AmountInBase(kept[i]) > 0)

\* a withdrawal of 3 at fx rate -3 is a deposit of 9 in base currency; no
\* row stands for a transaction of another type
C12_Witness ==
    /\ fn = "parse_deposits_withdrawals"
    /\ out.kind = "ok"
    /\ Len(out.val) = 1
    /\ out.val[1]["Amount"] = 0 - 3
    /\ out.val[1]["FX_Rate_To_Base"] = 0 - 3
    /\ out.val[1]["Transaction_Type"] = "Deposit"

\* a zero amount in base currency has been classified
C12_WitnessZero ==
    /\ fn = "parse_deposits_withdrawals"
    /\ out.kind = "ok"
    /\ Len(out.val) = 1
    /\ out.val[1]["Amount_Base_Currency"] = 0
    /\ out.val[1]["Transaction_Type"] = "Withdrawal"

\* the type or the description contains "Dividend", case-sensitively
TypeOrDescriptionHasDividend(txn) ==
    \/ StrContains(IF "@type" \in DOMAIN txn THEN txn["@type"] ELSE <<>>,
                   <<"D", "i", "v", "i", "d", "e", "n", "d">>)
    \/ StrContains(IF "@description" \in DOMAIN txn THEN txn["@description"] ELSE <<>>,
                   <<"D", "i", "v", "i", "d", "e", "n", "d">>)

\* the table holds the row
HasRow(table, row) == \E i \in 1..Len(table) : table[i] = row

\* parse_dividends emits one row, in order, for each cash transaction whose
\* type or description contains "Dividend", and for no other
C13_DividendFilter ==
    fn = "parse_dividends" =>
        LET kept == SelectSeq(ItemsOf(flex_data, "CashTransactions"),
                              TypeOrDescriptionHasDividend)
        IN  out = Ok([i \in 1..Len(kept) |-> DividendRow(kept[i])])

\* a cash transaction that is both a dividend and a deposit/withdrawal is in
\* both tables
C13_DividendAndDeposit ==
    fn = "parse_deposits_withdrawals" =>
        \A i \in 1..Len(ItemsOf(flex_data, "CashTransactions")) :
            LET txn == ItemsOf(flex_data, "CashTransactions")[i]
            IN  (TypeOrDescriptionHasDividend(txn) /\ TypeIsDepositWithdrawal(txn))
                    => /\ out.kind = "ok"
                       /\ HasRow(out.val, DepositRow(txn))
                       /\ HasRow(parse_dividends(flex_data).val, DividendRow(txn))

\* where the dedicated tax section gives no rows, so that the withholding
\* filter is the one that runs: a cash transaction that is both a dividend
\* and a withholding is in both tables
C13_DividendAndWithholding ==
    (fn = "parse_withholding_tax" /\ ItemsOf(flex_data, "WithholdingTax") = <<>>) =>
        \A i \in 1..Len(ItemsOf(flex_data, "CashTransactions")) :
            LET txn == ItemsOf(flex_data, "CashTransactions")[i]
            IN  (TypeOrDescriptionHasDividend(txn) /\ TypeIsWithholding(txn))
                    => /\ out.kind = "ok"
                       /\ HasRow(out.val, TaxFallbackRow(txn))
                       /\ HasRow(parse_dividends(flex_data).val, DividendRow(txn))

\* C13 (as claimed): parse_dividends emits a row for a cash transaction iff
\* its type or description contains "Dividend"; the dividend, withholding and
\* deposit filters each run over the full cash-transaction list, so a
\* transaction that satisfies the dividend predicate and the withholding (or
\* deposit) predicate is in both tables.
C13_IndependentFilters ==
    /\ C13_DividendFilter
    /\ C13_DividendAndDeposit
    /\ C13_DividendAndWithholding

\* the overlap holds for every parse_withholding_tax call that returns
C13_OverlapWhenReturning ==
    (fn = "parse_withholding_tax" /\ out.kind = "ok") => C13_DividendAndWithholding

(***************************************************************************)
(* Properties of process_accounts (checked under SpecAccounts).            *)
(***************************************************************************)
\* the outcome of the parse function of record type k (1 trades, 2
\* dividends, 3 taxes, 4 deposits/withdrawals) on an account document
ParsedAs(k, doc) ==
    CASE k = 1 -> parse_trades(doc)
      [] k = 2 -> parse_dividends(doc)
      [] k = 3 -> parse_withholding_tax(doc)
      [] k = 4 -> parse_deposits_withdrawals(doc)

\* the @accountId field, or "Account_N" for the N-th document
AccountTag(doc, n) ==
    IF "@accountId" \in DOMAIN doc THEN doc["@accountId"].val
    ELSE <<"A", "c", "c", "o", "u", "n", "t", "_">> \o StrOfNat(n)

RECURSIVE TaggedConcat(_, _, _)
\* the rows of record type k of documents n, n + 1, ... of the list, each
\* with its account tag, in input order
TaggedConcat(k, docs, n) ==
    IF n > Len(docs) THEN <<>>
    ELSE LET rows == ParsedAs(k, docs[n].val).val
         IN  [i \in 1..Len(rows) |-> rows[i] @@ ("Account" :> AccountTag(docs[n].val, n))]
                 \o TaggedConcat(k, docs, n + 1)

\* every parse function returns on every account document of the input
AllParsed(d) ==
    IF d.kind = "list"
    THEN \A n \in 1..Len(d.val) : \A k \in 1..4 : ParsedAs(k, d.val[n].val).kind = "ok"
    ELSE \A k \in 1..4 : ParsedAs(k, d.val).kind = "ok"

\* whenever the parse functions return on every account document:
\* process_accounts returns, per record type, the concatenation in input
\* order of the per-account tables, every row tagged with its account
\* identifier (@accountId, or "Account_N" for the N-th document), an empty
\* table contributing nothing; on a single document it returns the parsed
\* tables, untagged
C14_ConcatenationInInputOrder ==
    (fn = "process_accounts" /\ AllParsed(data)) =>
        /\ out.kind = "ok"
        /\ tables = out.val
        /\ data.kind = "list"
               => \A k \in 1..4 : out.val[k] = TaggedConcat(k, data.val, 1)
        /\ data.kind = "dict"
               => \A k \in 1..4 :
                      /\ out.val[k] = ParsedAs(k, data.val).val
                      /\ \A i \in 1..Len(out.val[k]) : "Account" \notin DOMAIN out.val[k][i]

\* process_accounts raises exactly when a parse function does
C14_RaisesWithAParser ==
    fn = "process_accounts" => (out.kind = "raise" <=> ~AllParsed(data))

\* three accounts, the second without @accountId and the third without
\* trades: its rows are tagged "Account_2", and the trades table is the
\* first account's lot followed by the second's
C14_Witness ==
    /\ fn = "process_accounts"
    /\ data.kind = "list"
    /\ Len(data.val) = 3
    /\ "@accountId" \notin DOMAIN data.val[2].val
    /\ "Trades" \notin DOMAIN data.val[3].val
    /\ out.kind = "ok"
    /\ Len(out.val[1]) = 2
    /\ out.val[1][1]["Account"] = <<"U", "1">>
    /\ out.val[1][2]["Account"] = <<"A", "c", "c", "o", "u", "n", "t", "_", "2">>
    /\ out.val[1][1]["Symbol"] = S_AAPL
    /\ out.val[1][2]["Symbol"] = S_USD

\* C14 (as claimed): process_accounts returns the tagged concatenation (or,
\* for a single document, the parsed tables) for every input.
C14_ReturnsConcatenation ==
    fn = "process_accounts" =>
        /\ out.kind = "ok"
        /\ data.kind = "list"
               => \A k \in 1..4 : out.val[k] = TaggedConcat(k, data.val, 1)
        /\ data.kind = "dict"
               => \A k \in 1..4 : out.val[k] = ParsedAs(k, data.val).val

(***************************************************************************)
(* Properties of calculate_summary (checked under SpecSummary).            *)
(***************************************************************************)
Returned(name) == fn = name /\ out.kind = "ok"

\* a table was supplied and is non-empty
Supplied(df) == df.kind # "None" /\ Len(df.val) > 0

\* C15: in the dictionary calculate_summary returns, Trade_Summary,
\* Dividend_Summary, Tax_Summary and Account_Summary are each present iff
\* their source table is supplied and non-empty, China_Tax_Calculation is
\* present iff Trade_Summary and Dividend_Summary both are, there is no
\* other key, and with the three tables empty and no deposits the dictionary
\* is empty; the call never raises.
C15_SectionsIffTables ==
    fn = "calculate_summary" =>
        /\ out.kind = "ok"
        /\ "Trade_Summary" \in DOMAIN out.val <=> Supplied(call.trades_df)
        /\ "Dividend_Summary" \in DOMAIN out.val <=> Supplied(call.dividends_df)
        /\ "Tax_Summary" \in DOMAIN out.val <=> Supplied(call.tax_df)
        /\ "Account_Summary" \in DOMAIN out.val <=> Supplied(call.deposits_withdrawals_df)
        /\ "China_Tax_Calculation" \in DOMAIN out.val
               <=> {"Trade_Summary", "Dividend_Summary"} \subseteq DOMAIN out.val
        /\ DOMAIN out.val \subseteq {"Trade_Summary", "Dividend_Summary", "Tax_Summary",
                                     "China_Tax_Calculation", "Account_Summary"}
        /\ (/\ Empty(call.trades_df) /\ Empty(call.dividends_df) /\ Empty(call.tax_df)
            /\ ~Supplied(call.deposits_withdrawals_df))
               => DOMAIN out.val = {}

\* trades and taxes but no dividends, and a deposits table that is supplied
\* but empty: two sections, no China_Tax_Calculation, no Account_Summary
C15_Witness ==
    /\ Returned("calculate_summary")
    /\ call.deposits_withdrawals_df = DataFrame(<<>>)
    /\ Empty(call.dividends_df)
    /\ DOMAIN out.val = {"Trade_Summary", "Tax_Summary"}

\* the three tables empty and no deposits table: the empty dictionary
C15_WitnessEmpty ==
    /\ Returned("calculate_summary")
    /\ call.deposits_withdrawals_df = PyNone
    /\ DOMAIN out.val = {}

China == out.val["China_Tax_Calculation"]

\* 0.2 x the two-decimal figure x, in thousandths
Fifth(x) == x * 2

\* C16: in China_Tax_Calculation, with N the reported net trade P&L in CNY,
\* D >= 0 the reported dividend total in CNY and W >= 0 the reported
\* withholding tax in CNY (0 when there is no Tax_Summary), each figure
\* rounded to two decimals: Foreign_Tax_Credit_CNY = min(W, 0.2 D),
\* Tax_Due_20pct_CNY = 0.2 (N + D), Tax_Payable_CNY = 0.2 (N + D)
\* - min(W, 0.2 D); the credit is not capped by the tax due.
C16_ChinaTaxFormulas ==
    (Returned("calculate_summary") /\ "China_Tax_Calculation" \in DOMAIN out.val) =>
        LET N == out.val["Trade_Summary"]["Net_P&L_CNY"]
            D == out.val["Dividend_Summary"]["Total_Amount_CNY"]
            W == IF "Tax_Summary" \in DOMAIN out.val
                 THEN out.val["Tax_Summary"]["Total_Withholding_Tax_CNY"]
                 ELSE 0
            credit == IF W * 10 <= Fifth(D) THEN W * 10 ELSE Fifth(D)
        IN  /\ D >= 0 /\ W >= 0
            /\ China["Foreign_Tax_Credit_CNY"] = Round2(credit)
            /\ China["Tax_Due_20pct_CNY"] = Round2(Fifth(N + D))
            /\ China["Tax_Payable_CNY"] = Round2(Fifth(N + D) - credit)
            /\ China["Taxable_Income_CNY"] = N + D

\* the withholding tax exceeds 20% of the dividends, which exceed the tax
\* due: the credit is 20% of the dividends and the tax payable is negative
C16_Witness ==
    /\ Returned("calculate_summary")
    /\ "China_Tax_Calculation" \in DOMAIN out.val
    /\ "Tax_Summary" \in DOMAIN out.val
    /\ out.val["Tax_Summary"]["Total_Withholding_Tax_CNY"] * 10
           > Fifth(out.val["Dividend_Summary"]["Total_Amount_CNY"])
    /\ China["Foreign_Tax_Credit_CNY"] > China["Tax_Due_20pct_CNY"]
    /\ China["Foreign_Tax_Credit_CNY"] > 0
    /\ China["Tax_Payable_CNY"] < 0

\* the withholding tax is below 20% of the dividends: the credit is the tax
C16_WitnessBelowLimit ==
    /\ Returned("calculate_summary")
    /\ "China_Tax_Calculation" \in DOMAIN out.val
    /\ "Tax_Summary" \in DOMAIN out.val
    /\ China["Foreign_Tax_Credit_CNY"] = out.val["Tax_Summary"]["Total_Withholding_Tax_CNY"]
    /\ China["Foreign_Tax_Credit_CNY"] > 0
    /\ China["Foreign_Tax_Credit_CNY"]
           < RoundDiv(Fifth(out.val["Dividend_Summary"]["Total_Amount_CNY"]), 10)

\* C16 (figure by figure): the reported Tax_Payable_CNY is the reported
\* Tax_Due_20pct_CNY less the reported Foreign_Tax_Credit_CNY, to within
\* one hundredth (each is rounded on its own).
C16_PayableWithinOneCent ==
    (Returned("calculate_summary") /\ "China_Tax_Calculation" \in DOMAIN out.val) =>
        Abs(China["Tax_Payable_CNY"]
            - (China["Tax_Due_20pct_CNY"] - China["Foreign_Tax_Credit_CNY"])) <= 1

\* the two roundings differ: the reported Tax_Payable_CNY is one hundredth
\* off the difference of the reported tax due and credit
C16_WitnessOneCent ==
    /\ Returned("calculate_summary")
    /\ "China_Tax_Calculation" \in DOMAIN out.val
    /\ China["Tax_Payable_CNY"]
           # China["Tax_Due_20pct_CNY"] - China["Foreign_Tax_Credit_CNY"]

\* the table without its rows in a currency other than USD
UsdOnly(df) == DataFrame(RowsWhere(df.val, "Currency", S_USD))

HasUsdRow(df) == ~Empty(UsdOnly(df))

HasOtherRow(df) == UsdOnly(df) # df

\* the summary of the call's tables with the non-USD rows removed
UsdOnlySummary ==
    calculate_summary(UsdOnly(call.trades_df), UsdOnly(call.dividends_df),
                      UsdOnly(call.tax_df), call.deposits_withdrawals_df,
                      call.use_dynamic_rates, call.default_rate, rate).val

\* a section of the summary without its row count
Less(section, count) == [k \in DOMAIN section \ {count} |-> section[k]]

AllUsdRow ==
    /\ Supplied(call.trades_df) => HasUsdRow(call.trades_df)
    /\ Supplied(call.dividends_df) => HasUsdRow(call.dividends_df)
    /\ Supplied(call.tax_df) => HasUsdRow(call.tax_df)

\* C17: calculate_summary derives every figure it reports for trades,
\* dividends and taxes from the USD rows only: when each non-empty table has
\* a USD row, the summary is the one of the tables with their non-USD rows
\* removed.
C17_OnlyUsdRowsReported ==
    (Returned("calculate_summary") /\ AllUsdRow) => out.val = UsdOnlySummary

\* C17 (what holds): with a USD row in each non-empty table, removing the
\* non-USD rows changes nothing but the row counts Total_Trades and
\* Total_Dividends, which count the rows of every currency.
C17_OnlyCountsChange ==
    (Returned("calculate_summary") /\ AllUsdRow) =>
        /\ DOMAIN out.val = DOMAIN UsdOnlySummary
        /\ \A k \in DOMAIN out.val \ {"Trade_Summary", "Dividend_Summary"} :
               out.val[k] = UsdOnlySummary[k]
        /\ "Trade_Summary" \in DOMAIN out.val =>
               /\ Less(out.val["Trade_Summary"], "Total_Trades")
                      = Less(UsdOnlySummary["Trade_Summary"], "Total_Trades")
               /\ out.val["Trade_Summary"]["Total_Trades"] = Len(call.trades_df.val)
               /\ out.val["Trade_Summary"]["USD_Trades"]
                      = Len(UsdOnly(call.trades_df).val)
        /\ "Dividend_Summary" \in DOMAIN out.val =>
               /\ Less(out.val["Dividend_Summary"], "Total_Dividends")
                      = Less(UsdOnlySummary["Dividend_Summary"], "Total_Dividends")
               /\ out.val["Dividend_Summary"]["Total_Dividends"]
                      = Len(call.dividends_df.val)

\* a tax table with a non-USD row only still has its Tax_Summary, of zeros
C17_NonUsdTableReported ==
    (Returned("calculate_summary") /\ Supplied(call.tax_df) /\ ~HasUsdRow(call.tax_df)) =>
        /\ out.val["Tax_Summary"]["Total_Withholding_Tax_USD"] = 0
        /\ out.val["Tax_Summary"]["Total_Withholding_Tax_CNY"] = 0

(***************************************************************************)
(* Properties of calculate_performance (checked under SpecPerformance).    *)
(***************************************************************************)
Performance == out.val["Performance_Summary"]

\* the dates of a table, none for an empty table
DatesOf(df) == {df.val[i]["Date"] : i \in 1..Len(df.val)}

\* latest - earliest + 1 over a set of dates; 1 for no date, a missing date
\* or a date that is not of the form YYYYMMDD at either end
SpanOf(dates) ==
    LET lo == StrMin(dates)
        hi == StrMax(dates)
    IN  IF dates = {} THEN 1
        ELSE IF lo = <<>> \/ Strptime(lo).kind # "ok" \/ Strptime(hi).kind # "ok" THEN 1
        ELSE Strptime(hi).val - Strptime(lo).val + 1

\* C18: calculate_performance sets Investment_Period_Days to latest date -
\* earliest date + 1 over the dates of whichever of the trades, dividends
\* and deposits/withdrawals tables are non-empty (the trade span when only
\* trades exist), and to 1 when there is no date or an end fails to parse.
C18_PeriodOverNonEmptyTables ==
    Returned("calculate_performance") =>
        Performance["Investment_Period_Days"]
            = SpanOf(DatesOf(call.trades_df) \cup DatesOf(call.dividends_df)
                     \cup DatesOf(call.deposits_withdrawals_df))

\* C18 (what holds): the period is taken over the three tables when all
\* three are non-empty, over the trades alone when there are trades but a
\* dividends or deposits table is empty, and is 1 when there are no trades.
C18_PeriodAllThreeOrTrades ==
    Returned("calculate_performance") =>
        Performance["Investment_Period_Days"]
            = IF Empty(call.trades_df) THEN 1
              ELSE IF Empty(call.dividends_df) \/ Empty(call.deposits_withdrawals_df)
              THEN SpanOf(DatesOf(call.trades_df))
              ELSE SpanOf(DatesOf(call.trades_df) \cup DatesOf(call.dividends_df)
                          \cup DatesOf(call.deposits_withdrawals_df))

\* trades in January and March, a dividend in December, no deposits: the
\* period is the 55 days of the trades, not the 81 days from the dividend
C18_TradesAndDividends ==
    /\ Returned("calculate_performance")
    /\ DatesOf(call.trades_df) = {D_JAN, D_MAR}
    /\ DatesOf(call.dividends_df) = {D_DEC}
    /\ Empty(call.deposits_withdrawals_df)
    /\ Performance["Investment_Period_Days"] = 55
    /\ SpanOf({D_DEC, D_JAN, D_MAR}) = 81

BeginningNetWorth == CashOf(call.cash_report, "Starting_Cash")

EndingNetWorth ==
    CashOf(call.cash_report, "Ending_Cash")
    + ColumnSum(RowsWhere(call.open_positions_df.val, "Currency", S_USD), "Position_Value")

NetDeposits == ColumnSum(call.deposits_withdrawals_df.val, "Amount_Base_Currency")

\* (ending - beginning - net deposits) / beginning x 100, to two decimals
TotalReturnFormula ==
    PercentOf(EndingNetWorth - BeginningNetWorth - NetDeposits, BeginningNetWorth)

\* C19: calculate_performance reports Total_Return_Percent = (ending net
\* worth - beginning net worth - net deposits) / beginning net worth x 100
\* for every beginning net worth other than 0, and exactly 0 without raising
\* when the beginning net worth is 0.
C19_TotalReturnUnlessZero ==
    fn = "calculate_performance" =>
        /\ out.kind = "ok"
        /\ Performance["Total_Return_Percent"]
               = IF BeginningNetWorth # 0 THEN TotalReturnFormula ELSE 0

\* C19 (what holds): when it returns, calculate_performance reports the
\* formula for a beginning net worth above 0 and 0 for one of 0 or below;
\* for a beginning net worth of 0 or below it always returns.
C19_TotalReturnWhenPositive ==
    fn = "calculate_performance" =>
        /\ BeginningNetWorth <= 0 => out.kind = "ok"
        /\ out.kind = "ok" =>
               Performance["Total_Return_Percent"]
                   = IF BeginningNetWorth > 0 THEN TotalReturnFormula ELSE 0

\* a negative starting cash: 0 is reported where the formula gives another
\* figure
C19_NegativeBeginning ==
    /\ Returned("calculate_performance")
    /\ BeginningNetWorth < 0
    /\ Performance["Total_Return_Percent"] = 0
    /\ TotalReturnFormula # 0

\* a positive starting cash and no report: the annualized return raised
C19_Raised ==
    /\ fn = "calculate_performance"
    /\ out.kind = "raise"
    /\ BeginningNetWorth > 0

UsdTrades == RowsWhere(call.trades_df.val, "Currency", S_USD)

\* C20: calculate_performance reports Realized_ROI_Percent = (sum of
\* Realized P&L over USD trades) / (sum of Cost over USD trades) x 100
\* whenever that cost sum is not 0, and 0 when it is 0 or there are no
\* trades.
C20_RoiUnlessZeroCost ==
    Returned("calculate_performance") =>
        Performance["Realized_ROI_Percent"]
            = IF ColumnSum(UsdTrades, "Cost") # 0
              THEN PercentOf(ColumnSum(UsdTrades, "Realized P&L"),
                             ColumnSum(UsdTrades, "Cost"))
              ELSE 0

\* C20 (what holds): the ratio is reported for a cost sum above 0, and 0
\* for a cost sum of 0 or below and for no trades.
C20_RoiWhenPositiveCost ==
    Returned("calculate_performance") =>
        Performance["Realized_ROI_Percent"]
            = IF ColumnSum(UsdTrades, "Cost") > 0
              THEN PercentOf(ColumnSum(UsdTrades, "Realized P&L"),
                             ColumnSum(UsdTrades, "Cost"))
              ELSE 0

\* USD trades whose costs sum to a negative number: 0 is reported where the
\* ratio is another figure
C20_NegativeCost ==
    /\ Returned("calculate_performance")
    /\ ColumnSum(UsdTrades, "Cost") < 0
    /\ ColumnSum(UsdTrades, "Realized P&L") # 0
    /\ Performance["Realized_ROI_Percent"] = 0

\* the events of the call: trades, then dividends, then deposits/withdrawals
AllEvents ==
    EventsOf(call.trades_df, "Realized P&L") \o EventsOf(call.dividends_df, "Amount")
    \o EventsOf(call.deposits_withdrawals_df, "Amount_Base_Currency")

\* the place of event i in ascending date order, equal dates in the order
\* of AllEvents: one more than the events that come before it
PlaceInOrder(i) ==
    1 + Cardinality({j \in 1..Len(AllEvents) :
                        \/ StrLess(AllEvents[j].date, AllEvents[i].date)
                        \/ AllEvents[j].date = AllEvents[i].date /\ j < i})

Ordered ==
    [k \in 1..Len(AllEvents) |->
        AllEvents[CHOOSE i \in 1..Len(AllEvents) : PlaceInOrder(i) = k]]

\* the net worth after each of the events, from the beginning net worth
ValuesAlong(events) ==
    LET v[k \in 0..Len(events)] ==
            IF k = 0 THEN BeginningNetWorth ELSE v[k - 1] + events[k].change
    IN  [k \in 0..Len(events) |-> v[k]]

\* the peak up to each event
PeaksAlong(values) ==
    [k \in DOMAIN values |->
        CHOOSE v \in {values[i] : i \in 0..k} : \A i \in 0..k : values[i] <= v]

\* n1 / d1 <= n2 / d2 for d1, d2 > 0
FractionLeq(a, b) == a[1] * b[2] <= b[1] * a[2]

\* the drawdowns the reference takes the largest of: 0, the one after each
\* event (for a peak above 0), and the one of the ending net worth
ReferenceDrawdowns(values, peaks) ==
    {<<0, 1>>}
    \cup {<<peaks[k] - values[k], peaks[k]>> :
             k \in {i \in DOMAIN values \ {0} : peaks[i] > 0}}
    \cup {<<peaks[k] - EndingNetWorth, peaks[k]>> :
             k \in {i \in {Len(AllEvents)} : peaks[i] > 0}}

C21_WitnessEqualDates ==
    /\ Returned("_calculate_max_drawdown")
    /\ BeginningNetWorth = 1000
    /\ Len(AllEvents) = 4
    /\ \E i, j \in 1..Len(AllEvents) :
           /\ i < j /\ AllEvents[i].date = AllEvents[j].date
           /\ AllEvents[i].change > 0 /\ AllEvents[j].change < 0
    /\ out.val[1] > 0

\* C22: calculate_performance never raises: for every combination of tables
\* and cash report it returns a dictionary.  (calculate_summary: see
\* C22_SummaryReturns, under the summary specification.)
C22_PerformanceNeverRaises ==
    fn = "calculate_performance" =>
        /\ out.kind = "ok"
        /\ "Performance_Summary" \in DOMAIN out.val

\* C22 (calculate_summary, under the summary specification): every call
\* returns a dictionary
C22_SummaryReturns ==
    fn = "calculate_summary" => out.kind = "ok"

\* C22 (what holds): calculate_performance raises only out of the annualized
\* return, for a beginning net worth above 0 with neither open positions nor
\* deposits: OverflowError, or TypeError for a total return below -100% over
\* a period that does not divide 365 days.
C22_RaisesOnlyInAnnualizedReturn ==
    (fn = "calculate_performance" /\ out.kind = "raise") =>
        /\ BeginningNetWorth > 0
        /\ Empty(call.open_positions_df) /\ Empty(call.deposits_withdrawals_df)
        /\ \/ out.exc = "OverflowError"
           \/ /\ out.exc = "TypeError"
              /\ EndingNetWorth < 0
              /\ 365 % SpanOf(DatesOf(call.trades_df)) # 0

\* no table has a row, the cash went from 1000 to 9000: OverflowError
C22_OverflowOnEmptyTables ==
    /\ fn = "calculate_performance"
    /\ out = Raise("OverflowError")
    /\ Empty(call.trades_df) /\ Empty(call.dividends_df)
    /\ call.cash_report = CashReport(1000, 9000)

\* a total return below -100% with numpy figures: NaN is reported
C22_NanReported ==
    /\ Returned("calculate_performance")
    /\ Performance["Annualized_Return_Percent"].kind = "nan"
    /\ Performance["Total_Return_Percent"] < 0 - 10000

(***************************************************************************)
(* Properties of ExchangeRateService.get_rate (checked under SpecRates).   *)
(***************************************************************************)
\* a response that carries a rate: status 200 and a CNY figure above 0
SuppliesRate(response) ==
    response.status = 200 /\ response.cny # PyNone /\ response.cny.val > 0

\* the rate of the first response of the call that carries one, 0 if none does
FirstSupplied(requests) ==
    IF \E i \in 1..Len(requests) : SuppliesRate(requests[i])
    THEN LET i == CHOOSE i \in 1..Len(requests) :
                      /\ SuppliesRate(requests[i])
                      /\ \A j \in 1..(i - 1) : ~SuppliesRate(requests[j])
         IN  requests[i].cny.val
    ELSE 0

\* the digits of a date string: the same for both forms of a date
DigitsOf(s) == SelectSeq(s, IsDigit)

\* C23: every get_rate call, after any sequence of earlier calls, returns a
\* rate and does not raise: the rate cached for the date if there is one,
\* else the first rate an API supplies (asking the APIs in order until one
\* does), else the fallback passed to this call.
C23_GetRateAlwaysReturns ==
    [][fn' = "get_rate" =>
        LET cached == {d \in DOMAIN cache : DigitsOf(d) = DigitsOf(call'.date_str)}
        IN  /\ out'.kind = "ok"
            /\ IF cached # {} THEN \A d \in cached : out'.val = cache[d]
               ELSE IF FirstSupplied(call'.requests) # 0
               THEN out'.val = FirstSupplied(call'.requests)
               ELSE out'.val = call'.default_rate
            /\ cached = {} =>
                   \/ SuppliesRate(call'.requests[Len(call'.requests)])
                   \/ Len(call'.requests) = 2]_vars

\* the first API failed and the second supplied the rate returned
C23_Witness ==
    /\ fn = "get_rate"
    /\ Len(call.requests) = 2
    /\ ~SuppliesRate(call.requests[1])
    /\ SuppliesRate(call.requests[2])
    /\ out = Ok(call.requests[2].cny.val)

\* no API supplied a rate: the fallback of this call, not DEFAULT_RATE
C23_WitnessFallback ==
    /\ fn = "get_rate"
    /\ Len(call.requests) = 2
    /\ FirstSupplied(call.requests) = 0
    /\ call.default_rate # DEFAULT_RATE
    /\ out = Ok(call.default_rate)

\* a cached fallback is returned to a later call that passes another fallback
C23_WitnessCachedFallback ==
    /\ fn = "get_rate"
    /\ call.requests = <<>>
    /\ out = Ok(DEFAULT_RATE)
    /\ call.default_rate # DEFAULT_RATE

\* the cache file could not be written and the call returned
C23_WitnessWriteFailed ==
    /\ fn = "get_rate"
    /\ out.kind = "ok"
    /\ call.requests # <<>>
    /\ cache_file = Unreadable
    /\ cache # <<>>

\* C24: the cache is keyed by the normalized date: once get_rate has
\* returned for a date, given as YYYYMMDD or as YYYY-MM-DD, every later call
\* for that date in either form returns the same value and makes no API
\* call; there is at most one fetch per distinct date, and no call changes
\* or removes an existing cache entry.
C24_OneFetchPerDate ==
    [][fn' = "get_rate" =>
        /\ \A d \in DOMAIN returned :
               DigitsOf(d) = DigitsOf(call'.date_str) =>
                   /\ out' = Ok(returned[d])
                   /\ call'.requests = <<>>
                   /\ fetched' = fetched
        /\ \A d \in DOMAIN fetched' :
               /\ fetched'[d] <= 1
               /\ \A e \in DOMAIN fetched' : DigitsOf(d) = DigitsOf(e) => d = e
        /\ \A d \in DOMAIN cache : d \in DOMAIN cache' /\ cache'[d] = cache[d]]_vars

\* a call with the compact form answered from the entry an earlier call
\* fetched, without a request
C24_Witness ==
    /\ fn = "get_rate"
    /\ call.date_str = D_MAR
    /\ call.requests = <<>>
    /\ D_DASHED \in DOMAIN fetched
    /\ fetched[D_DASHED] = 1
    /\ out = Ok(returned[D_DASHED])

(***************************************************************************)
(* Properties of StopLossManager (checked under SpecStopLoss).             *)
(***************************************************************************)
\* C25: check_stop_loss_triggered(symbol, price) returns (False, None) and
\* changes nothing when the symbol has no config; otherwise a price above
\* peak_price first raises peak_price to the price and stop_price to
\* price x (1 - trailing_percent/100), a price at or below the old peak
\* leaves peak and stop unchanged, and it returns triggered =
\* (price <= stop_price) with that stop price, so a price equal to the stop
\* triggers.
C25_CheckStopLossTriggered ==
    [][fn' = "check_stop_loss_triggered" =>
        LET symbol == call'.symbol
            price == call'.current_price
        IN  IF symbol \notin DOMAIN configs
            THEN /\ out' = Ok(<<FALSE, PyNone>>)
                 /\ configs' = configs
                 /\ config_file' = config_file
            ELSE /\ DOMAIN configs' = DOMAIN configs
                 /\ \A other \in DOMAIN configs \ {symbol} : configs'[other] = configs[other]
                 /\ configs'[symbol].trailing_percent = configs[symbol].trailing_percent
                 /\ IF price > configs[symbol].peak_price
                    THEN /\ configs'[symbol].peak_price = price
                         /\ configs'[symbol].stop_price * 100 =
                                price * (100 - configs[symbol].trailing_percent)
                    ELSE /\ configs'[symbol] = configs[symbol]
                         /\ config_file' = config_file
                 /\ out' = Ok(<<price <= configs'[symbol].stop_price,
                               configs'[symbol].stop_price>>)]_vars

\* a price equal to the stop price triggers
C25_Witness ==
    /\ fn = "check_stop_loss_triggered"
    /\ call.symbol \in DOMAIN configs
    /\ call.current_price = configs[call.symbol].stop_price
    /\ call.current_price < configs[call.symbol].peak_price
    /\ out = Ok(<<TRUE, configs[call.symbol].stop_price>>)

\* a new high: peak and stop raised, not triggered
C25_WitnessNewHigh ==
    /\ fn = "check_stop_loss_triggered"
    /\ call.symbol \in DOMAIN configs
    /\ call.written = "written"
    /\ configs[call.symbol].peak_price = call.current_price
    /\ configs[call.symbol].last_updated = now - 1
    /\ out = Ok(<<FALSE, configs[call.symbol].stop_price>>)

\* no config for the symbol
C25_WitnessNoConfig ==
    /\ fn = "check_stop_loss_triggered"
    /\ call.symbol \notin DOMAIN configs
    /\ configs # <<>>
    /\ out = Ok(<<FALSE, PyNone>>)

\* C26: after any sequence of set_trailing_stop, check_stop_loss_triggered
\* and remove_stop_loss calls, a new manager constructed on the same config
\* file loads configs equal to the in-memory configs of the first.
C26_FileHoldsConfigs ==
    load_configs(config_file) = configs

\* C26 (what holds): a call that changes the configs writes the file; when
\* the write succeeds the file holds the configs
C26_PersistedWhenWritten ==
    [][fn' \in {"set_trailing_stop", "check_stop_loss_triggered", "remove_stop_loss"} =>
        /\ call'.written = "none" => configs' = configs /\ config_file' = config_file
        /\ call'.written = "written" => load_configs(config_file') = configs']_vars

\* the write of a new config failed and set_trailing_stop returned it
C26_WriteFailed ==
    /\ fn = "set_trailing_stop"
    /\ call.written = "refused"
    /\ out = Ok(configs[call.symbol])
    /\ config_file = Missing
    /\ load_configs(config_file) # configs

\* C27: after any sequence of set_trailing_stop and
\* check_stop_loss_triggered calls every stored config satisfies
\* stop_price = peak_price x (1 - trailing_percent/100), and no call lowers
\* a peak_price.
C27_StopTrailsPeak ==
    [][/\ \A symbol \in DOMAIN configs' :
              configs'[symbol].stop_price * 100 =
                  configs'[symbol].peak_price * (100 - configs'[symbol].trailing_percent)
       /\ \A symbol \in DOMAIN configs \cap DOMAIN configs' :
              configs'[symbol].peak_price >= configs[symbol].peak_price]_vars

\* C27 (what holds): no call lowers a peak_price, and the stop price is
\* left alone unless the peak is raised
C27_PeakNeverDecreases ==
    [][\A symbol \in DOMAIN configs \cap DOMAIN configs' :
           /\ configs'[symbol].peak_price >= configs[symbol].peak_price
           /\ \/ configs'[symbol].stop_price = configs[symbol].stop_price
              \/ /\ configs'[symbol].peak_price > configs[symbol].peak_price
                 /\ configs'[symbol].stop_price * 100 =
                        configs'[symbol].peak_price
                            * (100 - configs'[symbol].trailing_percent)]_vars

\* set_trailing_stop with another percentage at a price not above the peak:
\* the percentage is stored and the stop price stays
C27_StaleStop ==
    /\ fn = "set_trailing_stop"
    /\ call.current_price <= configs[call.symbol].peak_price
    /\ configs[call.symbol].trailing_percent = 10
    /\ configs[call.symbol].peak_price = 10000
    /\ configs[call.symbol].stop_price = 9500

(***************************************************************************)
(* Properties of StopLossChecker.check_positions (checked under            *)
(* SpecChecker).                                                           *)
(***************************************************************************)
\* the place_stop_loss_order calls made on the client
Orders(calls) == {i \in 1..Len(calls) : calls[i][1] = "place_stop_loss_order"}

\* C29: check_positions places a stop-loss order for a position only when
\* auto_execute is true, the quantity is above 0, a market price was
\* obtained and the stop is triggered for the symbol at that price; with
\* auto_execute false it places no order; when the client is not connected
\* it raises before it reads a position or changes a config.
C29_OrdersOnlyWhenTriggered ==
    [][fn' = "check_positions" =>
        LET answers == call.answers
        IN  /\ \A i \in Orders(client_log') :
                   LET symbol == client_log'[i][2]
                       quantity == client_log'[i][3]
                       stop_price == client_log'[i][4]
                   IN  /\ call.auto_execute
                       /\ quantity > 0
                       /\ \E k \in 1..Len(answers.positions.val) :
                              /\ answers.positions.val[k].symbol = symbol
                              /\ answers.positions.val[k].position = quantity
                       /\ answers.price[symbol].kind = "float"
                       /\ answers.price[symbol].val <= stop_price
                       /\ symbol \in DOMAIN configs'
                       /\ stop_price = configs'[symbol].stop_price
                       /\ <<"get_market_price", symbol>> \in
                              {client_log'[j] : j \in 1..(i - 1)}
            /\ ~call.auto_execute => Orders(client_log') = {}
            /\ ~answers.connected =>
                   /\ out' = Raise("APIError")
                   /\ client_log' = <<<<"is_connected">>>>
                   /\ configs' = configs
                   /\ config_file' = config_file]_vars

\* an order placed for a triggered stop
C29_Witness ==
    /\ fn = "check_positions"
    /\ call.auto_execute
    /\ Orders(client_log) # {}
    /\ out.kind = "ok"

\* a triggered stop without auto_execute: advice, and no order
C29_WitnessNoAutoExecute ==
    /\ fn = "check_positions"
    /\ ~call.auto_execute
    /\ out.kind = "ok"
    /\ \E i \in 1..Len(out.val) : out.val[i].triggered /\ out.val[i].action_taken = "advised"
    /\ Orders(client_log) = {}

\* not connected
C29_WitnessNotConnected ==
    /\ fn = "check_positions"
    /\ ~call.answers.connected
    /\ out = Raise("APIError")
    /\ configs # <<>>

\* an average cost of 0 ends the call with ZeroDivisionError after a config
\* was created
C29_ZeroAverageCost ==
    /\ fn = "check_positions"
    /\ out = Raise("ZeroDivisionError")
    /\ "MSFT" \in DOMAIN configs
    /\ configs["MSFT"].last_updated = 1

(***************************************************************************)
(* Properties of the fetch pipeline (checked under Spec).                  *)
(***************************************************************************)
Last(q) == q[Len(q)]

IsPoll(e) == e.op = "get" /\ e.url = "GetStatement"
IsRequest(e) == e.op = "get" /\ e.url = "SendRequest"
IsSleep(e) == e.op = "sleep"

\* the part of log that get_report wrote: in fetch_data it follows the
\* request and the warm-up sleep
PollLog == IF entry = "get_report" THEN log ELSE SubSeq(log, 3, Len(log))

Polls == SelectSeq(PollLog, IsPoll)
PollSleeps == SelectSeq(PollLog, IsSleep)

AllNotReady(r) == \A i \in 1..Len(r) : r[i].kind = "not_ready"

\* C1: k "not yet ready" answers (0 <= k < max_retries) and then "Success":
\* get_report returns the statement after exactly k + 1 network calls and k
\* sleeps, each of the flat RETRY_DELAY; and after k < max_retries such
\* answers the loop is at attempt k, so that the next answer is still polled.
C1_NotReadyThenSuccess ==
    /\ (/\ pc = "finished"
        /\ resps # <<>>
        /\ Last(resps).kind = "success"
        /\ AllNotReady(SubSeq(resps, 1, Len(resps) - 1)))
           => /\ Len(resps) - 1 < max_retries
              /\ outcome.kind = "ok"
              /\ outcome.val \in ServerStatements(req_year)
              /\ Len(Polls) = Len(resps)
              /\ Len(PollSleeps) = Len(resps) - 1
              /\ \A i \in 1..Len(PollSleeps) : PollSleeps[i].delay = 2
    /\ (pc = "get_report" /\ AllNotReady(resps) /\ Len(resps) < max_retries)
           => /\ attempt = Len(resps)
              /\ Len(Polls) = Len(resps)
              /\ Len(PollSleeps) = Len(resps)
              /\ \A i \in 1..Len(PollSleeps) : PollSleeps[i].delay = 2

\* a direct get_report(max_retries=3) call has returned on its third attempt
C1_Witness ==
    /\ entry = "get_report"
    /\ pc = "finished"
    /\ max_retries = 3
    /\ Len(resps) = 3
    /\ resps[1].kind = "not_ready"
    /\ resps[2].kind = "not_ready"
    /\ resps[3].kind = "success"
    /\ outcome.kind = "ok"

\* C2: when all max_retries attempts are answered "not yet ready", no
\* further attempt is made and get_report raises the timeout APIError naming
\* max_retries, after exactly max_retries network calls.
C2_AllNotReadyTimesOut ==
    (pc \in {"get_report", "finished"} /\ AllNotReady(resps) /\ Len(resps) >= max_retries)
        => /\ Len(resps) = max_retries
           /\ Len(Polls) = max_retries
           /\ pc = "get_report" => attempt = max_retries
           /\ pc = "finished"
                  => /\ outcome.kind = "raise"
                     /\ outcome.fmt = "Report retrieval timeout after {} attempts"
                     /\ outcome.with = max_retries

\* get_report(max_retries=3) has timed out after three "not yet ready" answers
C2_Witness ==
    /\ pc = "finished"
    /\ max_retries = 3
    /\ Len(resps) = 3
    /\ AllNotReady(resps)
    /\ outcome.kind = "raise"
    /\ Len(Polls) = 3

\* once a call has returned or raised, it makes no network call and sleeps
\* no more (main then drops the call's record)
FinishedIsFinal == pc = "finished" => (log' = log \/ log' = <<>>)

\* C3: a network failure on zero-based attempt i is followed by exactly one
\* sleep of RETRY_DELAY * RETRY_BACKOFF^i and a further attempt when
\* i < max_retries - 1, and by the retrieval-failure APIError, with no
\* further sleep or network call, when i = max_retries - 1.
C3_NetworkFailureBackoff ==
    [][/\ (/\ pc = "get_report"
           /\ Len(resps') = Len(resps) + 1
           /\ Last(resps').kind = "network_error")
              => /\ attempt = Len(resps)
                 /\ IF attempt < max_retries - 1
                    THEN /\ log' = log \o <<[op |-> "get", url |-> "GetStatement",
                                             params |-> [q |-> reference_code]],
                                            [op |-> "sleep",
                                             delay |-> 2 * Pow(2, attempt)]>>
                         /\ pc' = "get_report"
                         /\ attempt' = attempt + 1
                         /\ attempt' < max_retries
                    ELSE /\ attempt = max_retries - 1
                         /\ log' = Append(log, [op |-> "get", url |-> "GetStatement",
                                                params |-> [q |-> reference_code]])
                         /\ pc' = "finished"
                         /\ outcome'.kind = "raise"
                         /\ outcome'.fmt = "Failed to retrieve report after {} attempts"
                         /\ outcome'.with = max_retries
       /\ FinishedIsFinal]_vars

\* two network failures in a row have been retried, after sleeps of 2 and 4
C3_Witness ==
    /\ pc = "get_report"
    /\ max_retries = 3
    /\ Len(resps) = 2
    /\ resps[1].kind = "network_error"
    /\ resps[2].kind = "network_error"
    /\ Len(PollSleeps) = 2
    /\ PollSleeps[1].delay = 2
    /\ PollSleeps[2].delay = 4

InFetchData ==
    /\ entry \in {"fetch_data", "main"}
    /\ pc \in {"request_report", "warmup", "get_report", "finished"}

\* C5: fetch_data makes exactly one request_report call, then sleeps 2, then
\* polls with the reference code that call returned (with the default
\* max_retries); when the request fails, fetch_data raises after that one
\* call, without warm-up sleep or poll.
C5_RequestWarmUpPoll ==
    InFetchData =>
        /\ pc = "request_report" => log = <<>>
        /\ pc # "request_report"
               => /\ Len(log) >= 1
                  /\ log[1] = [op |-> "get", url |-> "SendRequest",
                               params |-> RequestParams(from_date, to_date)]
                  /\ \A i \in 2..Len(log) : ~IsRequest(log[i])
        /\ pc = "warmup" => Len(log) = 1 /\ reference_code \in ReferenceCodes
        /\ pc = "get_report" => Len(log) >= 2 /\ max_retries = MAX_RETRIES
        /\ Len(log) >= 2
               => /\ log[2] = [op |-> "sleep", delay |-> 2]
                  /\ reference_code \in ReferenceCodes
                  /\ \A i \in 3..Len(log) :
                         IsPoll(log[i]) => log[i].params = [q |-> reference_code]
        /\ (pc = "finished" /\ reference_code = "")
               => outcome.kind = "raise" /\ Len(log) = 1
        /\ (pc = "finished" /\ reference_code # "") => Len(log) >= 3 /\ IsPoll(log[3])

\* a direct fetch_data call has returned a statement after request, warm-up
\* and one poll
C5_Witness ==
    /\ entry = "fetch_data"
    /\ pc = "finished"
    /\ outcome.kind = "ok"
    /\ Len(log) = 3
    /\ IsRequest(log[1])
    /\ IsSleep(log[2])
    /\ IsPoll(log[3])

\* the multi-year loop has handled every year
LoopEnded == pc \in {"main_parse", "main_parsed", "exited"} /\ yi = Len(years_to_fetch)

\* the multi-year loop: the fetch_data calls made so far are those of the
\* first years of years_to_fetch, in order, each with its own year's range;
\* the years are ascending; a failed year is skipped and every later year
\* is still fetched; all_data holds one result per fetched year
C6_LoopPart ==
    MultiYear =>
        /\ \A i \in 1..(Len(years_to_fetch) - 1) : years_to_fetch[i] < years_to_fetch[i + 1]
        /\ Len(fetch_calls) <= Len(years_to_fetch)
        /\ \A i \in 1..Len(fetch_calls) :
               fetch_calls[i] = <<YearFrom(years_to_fetch[i]), YearTo(years_to_fetch[i])>>
        /\ Len(fetch_calls) \in {yi, yi + 1}
        /\ Len(all_data) = Len(fetched_years)
        /\ LoopEnded => Len(fetch_calls) = Len(years_to_fetch)

\* C6 (as claimed): in multi-year mode the years are fetched one after
\* another in ascending order, an API error skips only its year, and the run
\* exits with status 1 only when no year at all was fetched.
C6_PartialFailureTolerance ==
    /\ C6_LoopPart
    /\ (MultiYear /\ pc = "exited" /\ exit_code = 1) => fetched_years = <<>>

\* the row is a row of the table, whatever columns the table adds to it
RowIn(row, table) ==
    \E i \in 1..Len(table) :
        DOMAIN row \subseteq DOMAIN table[i] /\ \A k \in DOMAIN row : table[i][k] = row[k]

\* the account documents of one year's result
AccountsOf(year_data) ==
    IF year_data.kind = "list"
    THEN {year_data.val[i].val : i \in 1..Len(year_data.val)}
    ELSE {year_data.val}

\* C7 (as claimed): in multi-year mode the final tables contain the rows of
\* every fetched year and every account of it, for a single document and for
\* a list of documents alike.
C7_NoYearNoAccountDropped ==
    (MultiYear /\ pc = "main_parsed") =>
        \A y \in 1..Len(all_data) : \A doc \in AccountsOf(all_data[y]) :
            /\ \A i \in 1..Len(parse_trades(doc).val) :
                   RowIn(parse_trades(doc).val[i], tables[1])
            /\ \A i \in 1..Len(parse_dividends(doc).val) :
                   RowIn(parse_dividends(doc).val[i], tables[2])
            /\ \A i \in 1..Len(parse_withholding_tax(doc).val) :
                   RowIn(parse_withholding_tax(doc).val[i], tables[3])
            /\ \A i \in 1..Len(parse_deposits_withdrawals(doc).val) :
                   RowIn(parse_deposits_withdrawals(doc).val[i], tables[4])

(***************************************************************************)
(* Termination of get_report (checked under SpecGetReport).               *)
(***************************************************************************)
\* C28: for every max_retries >= 0 and every sequence of responses,
\* get_report makes at most max_retries network calls, one per attempt,
\* and finishes by returning or raising.
C28_GetReportTerminates ==
    /\ [](/\ Len(Polls) <= max_retries
          /\ Len(resps) = Len(Polls)
          /\ attempt <= max_retries)
    /\ <>(pc = "finished" /\ outcome.kind \in {"ok", "raise"})

\* every attempt was used and the call raised the timeout
C28_Witness ==
    /\ pc = "finished"
    /\ max_retries = MaxRetriesArg
    /\ Len(Polls) = max_retries
    /\ \A i \in 1..Len(resps) : resps[i].kind \in {"unrecognized", "not_ready"}
    /\ outcome.kind = "raise"

\* max_retries = 0: no network call, and the timeout is raised
C28_WitnessNoAttempt ==
    /\ pc = "finished"
    /\ max_retries = 0
    /\ log = <<>>
    /\ outcome = APIError("Report retrieval timeout after {} attempts", 0)

(***************************************************************************)
(* The date ranges of main's fetches (checked under Spec).                 *)
(***************************************************************************)
\* --from-year or --all, accepted by the validation
FromYearMode ==
    /\ entry = "main"
    /\ pc # "main_start"
    /\ args.year = 0
    /\ ~OptionsConflict(args)
    /\ args.from_year # 0 \/ (args.all /\ args.first_trade_year # 0)

StartYear == IF args.all THEN args.first_trade_year ELSE args.from_year

\* fetch_data(from_date=f"{year}0101", to_date=f"{year}1231")
YearRange(year) == <<YearFrom(year), YearTo(year)>>

\* C30: in --from-year / --all mode, for every start year up to and
\* including the current year, the i-th fetch carries the range 1 January to
\* 31 December of the i-th year of [start year, current year]: one fetch
\* per year in ascending order, and no fetch without that year's range.
C30_EveryFetchCarriesItsYear ==
    (FromYearMode /\ StartYear <= CurrentYear) =>
        /\ Len(fetch_calls) <= CurrentYear - StartYear + 1
        /\ \A i \in 1..Len(fetch_calls) : fetch_calls[i] = YearRange(StartYear + i - 1)
        /\ pc \in {"main_parse", "main_parsed", "exited"} =>
               Len(fetch_calls) = CurrentYear - StartYear + 1

\* C30 (what holds): the same for every start year before the current year
C30_RangesFromEarlierYear ==
    (FromYearMode /\ StartYear < CurrentYear) =>
        /\ Len(fetch_calls) <= CurrentYear - StartYear + 1
        /\ \A i \in 1..Len(fetch_calls) : fetch_calls[i] = YearRange(StartYear + i - 1)
        /\ pc \in {"main_parse", "main_parsed", "exited"} =>
               Len(fetch_calls) = CurrentYear - StartYear + 1

\* C30 (what holds): a start year equal to the current year, or after it,
\* gives one fetch without a date range
C30_OneFetchWithoutRange ==
    (FromYearMode /\ StartYear >= CurrentYear) =>
        \A i \in 1..Len(fetch_calls) : i = 1 /\ fetch_calls[i] = <<PyNone, PyNone>>

\* --from-year <current year>: the single fetch has no date range
C30_CurrentYearFetch ==
    /\ FromYearMode
    /\ args.from_year = CurrentYear
    /\ fetch_calls = <<<<PyNone, PyNone>>>>
    /\ pc = "main_parsed"

\* every year from the first to the current one fetched with its range
C30_AllYearsFetched ==
    /\ FromYearMode
    /\ args.from_year = BaseYear
    /\ Len(fetch_calls) = MaxYears
    /\ pc = "main_parsed"

====
